---- MODULE Spec2Model ----
(***************************************************************************)
(* goodreads-sync: the acquisition pipeline of src/src/index.js over the   *)
(* store of db.js (src/unnamed/part_004).                                  *)
(*                                                                         *)
(* One Node.js process runs the pipeline.  runCycle is an async function:  *)
(* the code between two awaits runs without interruption, and a trigger    *)
(* (startup, cron, SIGUSR1) is served only at an await.  Each action below *)
(* is one such uninterrupted segment.  A runCycle invocation that passes   *)
(* the flag test occupies a frame (its pc and the locals of processQueue); *)
(* there are two frames, so that two overlapping cycles are expressible.   *)
(*                                                                         *)
(* A Book row is identified by its goodreads_book_id (UNIQUE); timestamps  *)
(* are kept at the granularity of date(), the only way the code reads them.*)
(* A nullable column holds a set: {} is NULL, {v} is the value v.          *)
(***************************************************************************)
EXTENDS Integers, FiniteSets, Sequences, TLC

\* ---- bounds of the model ----
MaxDay == 1
MaxCap == 2
MaxLen == 3
MaxHour == 26

\* ---- program constants ----
MAX_ATTEMPTS == 5
MAX_RESULTS_TO_CHECK == 5

\* downloadWithBrowser, in seconds: the poll interval, the wait between the
\* two size checks, the no-progress limit and the default of timeoutMs
POLL_INTERVAL == 3
SIZE_RECHECK == 2
NO_PROGRESS_LIMIT == 90
timeoutMs == 300

\* config.js: the mirrors, in the order they are tried
AA_DOMAINS == <<"annas-archive.li", "annas-archive.gl">>

\* the feed items (goodreads_book_id) and the configured users (users.id)
Keys == {1, 2}
\* the books a store can hold: those of the feeds above, and one more for a
\* queue of three books
BookIds == Keys \cup {3}
Users == {1, 2}
LastUser == CHOOSE u \in Users : \A v \in Users : v <= u
Days == 0..MaxDay
Triggers == {"startup", "cron", "manual"}
Frames == {1, 2}

VARIABLES
  MAX_DOWNLOADS_PER_DAY,          \* config.js: read from the environment at start
  MAX_DOWNLOADS_PER_USER_PER_DAY, \* config.js: read from the environment at start
  feeds,                \* per user, the item sets the user's RSS feed may deliver
  today,                \* date('now')
  books,                \* table books, by goodreads_book_id
  user_books,           \* table user_books: set of <<user_id, book>>
  cycleRunning,         \* index.js: let cycleRunning
  pc,                   \* position of the runCycle invocation in each frame
  syncUser,             \* syncRSS: the user whose feed is awaited
  skippedBookIds,       \* processQueue locals
  rateLimitedUserIds,
  job,
  eligibleUsers,
  attempted,            \* history: books whose attempt started in this processQueue call
  outcome,              \* history: how the iteration that has just ended went
  tmp,                  \* books whose temp file exists in the temporary directory
  files,                \* <<user, book>>: the book's file exists under the user's download_path
  copiedToday,          \* history: <<user, book>> of every copyFileSync that succeeded today
  bookRows,             \* table books with all its columns, as a set of rows (store-level checks)
  arg,                  \* the arguments of a call of a pure function
  ret                   \* its return value: {} before the call, {v} after

dbVars == <<books, user_books>>
cfgVars == <<MAX_DOWNLOADS_PER_DAY, MAX_DOWNLOADS_PER_USER_PER_DAY, feeds>>
queueVars == <<skippedBookIds, rateLimitedUserIds, job, eligibleUsers, attempted>>
callVars == <<bookRows, arg, ret>>
vars == <<MAX_DOWNLOADS_PER_DAY, MAX_DOWNLOADS_PER_USER_PER_DAY, feeds, today, books, user_books,
          cycleRunning, pc, syncUser, skippedBookIds, rateLimitedUserIds,
          job, eligibleUsers, attempted, outcome, tmp, files, copiedToday, bookRows, arg, ret>>

\* ---- the store ----

NoRow == [status |-> "none", attempts |-> 0, file_path |-> {}, downloaded_at |-> {}]

NoJob == [id |-> 0, attempts |-> 0]

\* INSERT ... ON CONFLICT(goodreads_book_id) DO UPDATE SET ..., updated_at = CURRENT_TIMESTAMP
upsertBookByGoodreadsId(bs, k, now) ==
  IF bs[k].status = "none"
    THEN [bs EXCEPT ![k] = [status |-> "pending", attempts |-> 0, file_path |-> {},
                            downloaded_at |-> {}]]
    ELSE bs

\* INSERT OR IGNORE INTO user_books
linkUserBook(ls, u, k) == ls \cup {<<u, k>>}

\* one feed: for every item, upsert the book and link it to the user
RECURSIVE upsertAll(_, _, _)
upsertAll(bs, items, now) ==
  IF items = {} THEN bs
  ELSE LET k == CHOOSE x \in items : TRUE
       IN upsertAll(upsertBookByGoodreadsId(bs, k, now), items \ {k}, now)

countDownloadsToday_byUpdatedAt(bs, now) ==
  Cardinality({k \in BookIds : bs[k].status = "downloaded" /\ bs[k].updated_at = {now}})

\* SELECT COUNT(*) FROM books WHERE status = 'downloaded' AND date(downloaded_at) = date('now')
countDownloadsToday(bs, now) ==
  Cardinality({k \in BookIds : bs[k].status = "downloaded" /\ bs[k].downloaded_at = {now}})

\* ... JOIN user_books ... AND user_books.user_id = ?
countUserDownloadsToday(bs, ls, now, u) ==
  Cardinality({k \in BookIds : /\ bs[k].status = "downloaded"
                            /\ bs[k].downloaded_at = {now}
                            /\ <<u, k>> \in ls})

\* SELECT users.* FROM users JOIN user_books ... WHERE user_books.book_id = ?
getUsersForBook(ls, k) == {u \in Users : <<u, k>> \in ls}

pendingRows_anyStatus(bs, excluded) ==
  {k \in BookIds : bs[k].status # "none" /\ bs[k].attempts < MAX_ATTEMPTS /\ k \notin excluded}

\* WHERE status = 'pending' AND attempts < ? [AND id NOT IN (...)]
pendingRows(bs, excluded) ==
  {k \in BookIds : bs[k].status = "pending" /\ bs[k].attempts < MAX_ATTEMPTS /\ k \notin excluded}

getNextPending_none(bs, excluded) == {}

\* ... ORDER BY attempts ASC LIMIT 1: the rows the statement may return
\* (ties in attempts are broken in an order SQL leaves open)
getNextPending(bs, excluded) ==
  {k \in pendingRows(bs, excluded) :
     \A o \in pendingRows(bs, excluded) : bs[k].attempts <= bs[o].attempts}

incrementAttempts_notYet(bs, k, now) == bs

incrementAttempts_twice(bs, k, now) ==
  IF bs[k].status = "none" THEN bs
  ELSE [bs EXCEPT ![k].attempts = @ + 2]

\* UPDATE books SET attempts = attempts + 1, updated_at = CURRENT_TIMESTAMP WHERE id = ?
incrementAttempts(bs, k, now) ==
  IF bs[k].status = "none" THEN bs
  ELSE [bs EXCEPT ![k].attempts = @ + 1]

markDownloaded_noStamp(bs, k, now) ==
  IF bs[k].status = "none" THEN bs
  ELSE [bs EXCEPT ![k].status = "downloaded", ![k].file_path = {k}]

\* UPDATE books SET status = 'downloaded', file_path = ?, downloaded_at = CURRENT_TIMESTAMP, ...
markDownloaded(bs, k, now) ==
  IF bs[k].status = "none" THEN bs
  ELSE [bs EXCEPT ![k].status = "downloaded", ![k].file_path = {k},
                  ![k].downloaded_at = {now}]

\* UPDATE books SET status = 'failed', updated_at = CURRENT_TIMESTAMP WHERE id = ?
markFailed(bs, k, now) ==
  IF bs[k].status = "none" THEN bs
  ELSE [bs EXCEPT ![k].status = "failed"]

\* ---- processQueue: decisions ----

DailyLimitReached_above(cnt) == cnt > MAX_DOWNLOADS_PER_DAY

DailyLimitReached_never(cnt) == FALSE

\* if (todayCount.cnt >= MAX_DOWNLOADS_PER_DAY), if (dailyCount >= MAX_DOWNLOADS_PER_DAY)
DailyLimitReached(cnt) == cnt >= MAX_DOWNLOADS_PER_DAY

\* if (userCount >= MAX_DOWNLOADS_PER_USER_PER_DAY)
UserLimitReached(cnt) == cnt >= MAX_DOWNLOADS_PER_USER_PER_DAY

ExhaustedAttempts_late(j) == j.attempts >= MAX_ATTEMPTS

ExhaustedAttempts_early(j) == j.attempts + 2 >= MAX_ATTEMPTS

\* catch: if (job.attempts + 1 >= MAX_ATTEMPTS) markFailed
ExhaustedAttempts(j) == j.attempts + 1 >= MAX_ATTEMPTS

recordFailure_rollback(bs, j, now) == [bs EXCEPT ![j.id].attempts = j.attempts]

\* catch block of an iteration
recordFailure(bs, j, now) ==
  IF ExhaustedAttempts(j) THEN markFailed(bs, j.id, now) ELSE bs

AlreadyRunning_never(flag) == FALSE

\* runCycle: if (cycleRunning) return
AlreadyRunning(flag) == flag

\* ---- initial state: a fresh store, users configured, service starting ----

\* a fresh store, no cycle running
ServiceStart ==
  /\ today = 0
  /\ books = [k \in BookIds |-> NoRow]
  /\ user_books = {}
  /\ cycleRunning = FALSE
  /\ pc = [f \in Frames |-> "idle"]
  /\ syncUser = [f \in Frames |-> 0]
  /\ skippedBookIds = [f \in Frames |-> {}]
  /\ rateLimitedUserIds = [f \in Frames |-> {}]
  /\ job = [f \in Frames |-> NoJob]
  /\ eligibleUsers = [f \in Frames |-> {}]
  /\ attempted = [f \in Frames |-> {}]
  /\ outcome = "none"
  /\ tmp = {}
  /\ files = {}
  /\ copiedToday = {}

PipelineInit ==
  \* the limits are configuration; the per-user limit is not above the global one
  /\ MAX_DOWNLOADS_PER_DAY \in 1..MaxCap
  /\ MAX_DOWNLOADS_PER_USER_PER_DAY \in 1..MAX_DOWNLOADS_PER_DAY
  \* any shelf content may arrive in any feed
  /\ feeds = [u \in Users |-> SUBSET Keys]
  /\ ServiceStart

Init ==
  /\ PipelineInit
  /\ bookRows = {}
  /\ arg = <<>>
  /\ ret = {}

\* ---- runCycle ----

\* The frame a new invocation occupies.
FreeFrame(f) == pc[f] = "idle" /\ \A g \in Frames : g < f => pc[g] # "idle"

\* A trigger calls runCycle: test and set of cycleRunning, then syncRSS up to
\* its first await (the feed of the first user).  With the flag set the call
\* logs a warning and returns: nothing is kept of the trigger.
RunCycle(trigger) ==
  IF AlreadyRunning(cycleRunning)
    THEN UNCHANGED vars
    ELSE /\ \E f \in Frames :
              /\ FreeFrame(f)
              /\ pc' = [pc EXCEPT ![f] = "sync"]
              /\ syncUser' = [syncUser EXCEPT ![f] = 1]
         /\ cycleRunning' = TRUE
         /\ UNCHANGED <<callVars, cfgVars, today, dbVars, queueVars, outcome, tmp, files, copiedToday>>

feedLoopEnds_onFailure(u, ok) == u = LastUser \/ ~ok

\* for (const user of users) { try { ... } catch { log } }: the loop ends
\* after the last user, whether the body of a pass threw or not
feedLoopEnds(u, ok) == u = LastUser

\* syncRSS: the awaited feed of one user arrives (or the fetch throws, which
\* is caught per user); all its items are upserted and linked.
SyncFeed(f) ==
  /\ pc[f] = "sync"
  /\ \E ok \in BOOLEAN, shelf \in feeds[syncUser[f]] :
       LET items == IF ok THEN shelf ELSE {}
       IN /\ books' = upsertAll(books, items, today)
          /\ user_books' = user_books \cup {<<syncUser[f], k>> : k \in items}
          /\ IF feedLoopEnds(syncUser[f], ok)
               THEN /\ pc' = [pc EXCEPT ![f] = "queue"]
                    /\ syncUser' = [syncUser EXCEPT ![f] = 0]
               ELSE /\ syncUser' = [syncUser EXCEPT ![f] = @ + 1]
                    /\ UNCHANGED pc
  /\ UNCHANGED <<callVars, cfgVars, today, cycleRunning, queueVars, outcome, tmp, files, copiedToday>>

\* ---- processQueue ----

\* Per-user limits computed once upfront (index.js 130-138)
limitedUsers(bs, ls, now, us) ==
  {u \in us : UserLimitReached(countUserDownloadsToday(bs, ls, now, u))}

\* processQueue entry: the upfront daily-limit check returns at once; otherwise
\* the locals are set up and the loop is entered.
ProcessQueueStart(f) ==
  /\ pc[f] = "queue"
  /\ IF DailyLimitReached(countDownloadsToday(books, today))
       THEN /\ pc' = [pc EXCEPT ![f] = "notify"]
            /\ UNCHANGED rateLimitedUserIds
       ELSE /\ pc' = [pc EXCEPT ![f] = "loop"]
            /\ rateLimitedUserIds' =
                 [rateLimitedUserIds EXCEPT ![f] = limitedUsers(books, user_books, today, Users)]
  /\ UNCHANGED <<callVars, cfgVars, today, dbVars, cycleRunning, syncUser,
                 skippedBookIds, job, eligibleUsers, attempted, outcome, tmp, files, copiedToday>>

eligible_all(linkedUsers, limited) == linkedUsers

\* linkedUsers.filter(u => !rateLimitedUserIds.has(u.id))
eligible(linkedUsers, limited) == linkedUsers \ limited

\* Loop head, limit reached or no job: break.
LoopBreak(f) ==
  /\ pc[f] = "loop"
  /\ \/ DailyLimitReached(countDownloadsToday(books, today))
     \/ getNextPending(books, skippedBookIds[f]) = {}
  /\ pc' = [pc EXCEPT ![f] = "notify"]
  /\ UNCHANGED <<callVars, cfgVars, today, dbVars, cycleRunning, syncUser, queueVars, outcome, tmp, files, copiedToday>>

\* Loop head, the selected job has no eligible user: skip it and continue.
LoopSkip(f) ==
  /\ pc[f] = "loop"
  /\ ~DailyLimitReached(countDownloadsToday(books, today))
  /\ \E k \in getNextPending(books, skippedBookIds[f]) :
       /\ eligible(getUsersForBook(user_books, k), rateLimitedUserIds[f]) = {}
       /\ skippedBookIds' = [skippedBookIds EXCEPT ![f] = @ \cup {k}]
  /\ UNCHANGED <<callVars, cfgVars, today, dbVars, cycleRunning, pc, syncUser,
                 rateLimitedUserIds, job, eligibleUsers, attempted, outcome, tmp, files, copiedToday>>

\* Loop head, a job with an eligible user: the attempt starts.  attempts is
\* incremented before the search is awaited.  (A job without title and author
\* throws here and reaches the catch block without an await; it is the
\* not-found outcome of SearchDone.)
StartAttempt(f) ==
  /\ pc[f] = "loop"
  /\ ~DailyLimitReached(countDownloadsToday(books, today))
  /\ \E k \in getNextPending(books, skippedBookIds[f]) :
       /\ eligible(getUsersForBook(user_books, k), rateLimitedUserIds[f]) # {}
       /\ job' = [job EXCEPT ![f] = [id |-> k, attempts |-> books[k].attempts]]
       /\ eligibleUsers' =
            [eligibleUsers EXCEPT ![f] = eligible(getUsersForBook(user_books, k), rateLimitedUserIds[f])]
       /\ books' = incrementAttempts(books, k, today)
       /\ attempted' = [attempted EXCEPT ![f] = @ \cup {k}]
  /\ pc' = [pc EXCEPT ![f] = "search"]
  /\ UNCHANGED <<callVars, cfgVars, today, user_books, cycleRunning, syncUser,
                 skippedBookIds, rateLimitedUserIds, outcome, tmp, files, copiedToday>>

IterationEnd_noSleep(f, how) ==
  /\ pc' = [pc EXCEPT ![f] = "loop"]
  /\ job' = [job EXCEPT ![f] = NoJob]
  /\ eligibleUsers' = [eligibleUsers EXCEPT ![f] = {}]
  /\ outcome' = how

\* The end of an iteration: succeeded++ or failed++, processed++, the cooldown
\* sleep is awaited; job and eligibleUsers are block-scoped and gone.
IterationEnd(f, how) ==
  /\ pc' = [pc EXCEPT ![f] = "cooldown"]
  /\ job' = [job EXCEPT ![f] = NoJob]
  /\ eligibleUsers' = [eligibleUsers EXCEPT ![f] = {}]
  /\ outcome' = how

\* The catch block of the iteration.
AttemptFailed(f, how) ==
  /\ books' = recordFailure(books, job[f], today)
  /\ IterationEnd(f, how)
  /\ UNCHANGED <<callVars, cfgVars, today, user_books, cycleRunning, syncUser,
                 skippedBookIds, rateLimitedUserIds, attempted>>

\* findBookOnAnna returns a download URL: downloadBook is awaited.
SearchFound(f) ==
  /\ pc[f] = "search"
  /\ pc' = [pc EXCEPT ![f] = "download"]
  /\ UNCHANGED <<callVars, cfgVars, today, dbVars, cycleRunning, syncUser, queueVars, outcome, tmp, files, copiedToday>>

\* findBookOnAnna returns null: thrown as "not found".
SearchNotFound(f) ==
  /\ pc[f] = "search"
  /\ AttemptFailed(f, "not_found")
  /\ UNCHANGED <<tmp, files, copiedToday>>

\* downloadBook: a real browser for fast_download URLs, an axios stream otherwise
DownloadPaths == {"browser", "stream"}

\* sizes in bytes of a payload that downloadBook has on disk
Sizes == {900, 1023, 1024, 2048}

TooSmall_streamUnchecked(path, size) == path = "browser" /\ size < 1024

\* if (stats.size < 1024): index.js 655 on the browser path, 698 on the stream path
TooSmall(path, size) ==
  IF path = "browser" THEN size < 1024 ELSE size < 1024

\* downloadBook throws before it has a payload: request, login, challenge or
\* timeout failure.  What was written so far (the stream's file, the browser's
\* .crdownload) is not removed.
DownloadFailed(f) ==
  /\ pc[f] = "download"
  /\ \E partial \in BOOLEAN :
       tmp' = IF partial THEN tmp \cup {job[f].id} ELSE tmp
  /\ AttemptFailed(f, "error")
  /\ UNCHANGED <<files, copiedToday>>

\* downloadBook has a payload under 1 KB: it is unlinked and an error is thrown.
\* The stream writes to tempPath itself; the browser's file has its own name,
\* so an older file at tempPath is not touched.
DownloadTooSmall(f, path, size) ==
  /\ pc[f] = "download"
  /\ TooSmall(path, size)
  /\ tmp' = IF path = "stream" THEN tmp \ {job[f].id} ELSE tmp
  /\ AttemptFailed(f, "too_small")
  /\ UNCHANGED <<files, copiedToday>>

copyFiles_one(us, k) ==
  \E u \in us :
    /\ files' = files \cup {<<u, k>>}
    /\ copiedToday' = copiedToday \cup {<<u, k>>}

\* copyFileSync(tempPath, destPath) for each of the users us
copyFiles(us, k) ==
  /\ files' = files \cup {<<u, k>> : u \in us}
  /\ copiedToday' = copiedToday \cup {<<u, k>> : u \in us}

\* downloadBook returns the temp file, and a copy to one of the eligible users
\* throws: the users served before it keep their copy, the temp file stays,
\* the catch block runs.  (getUsersForBook has no ORDER BY: any proper subset
\* of the eligible users may have been served.)
CopyFailed(f, path, size) ==
  /\ pc[f] = "download"
  /\ ~TooSmall(path, size)
  /\ \E served \in SUBSET eligibleUsers[f] :
       /\ served # eligibleUsers[f]
       /\ copyFiles(served, job[f].id)
  /\ tmp' = tmp \cup {job[f].id}
  /\ AttemptFailed(f, "copy_error")

refreshLimits_none(limited, bs, ls, now, served) == limited

\* Refresh per-user limits after a success (index.js 236-245)
refreshLimits(limited, bs, ls, now, served) ==
  limited \cup limitedUsers(bs, ls, now, served \ limited)

\* downloadBook returns the temp file and every copy succeeds: temp file
\* removed (unlinkSync of the file just written is taken to succeed), book
\* marked downloaded, limits refreshed.
DownloadSucceeded(f, path, size) ==
  /\ pc[f] = "download"
  /\ ~TooSmall(path, size)
  /\ copyFiles(eligibleUsers[f], job[f].id)
  /\ tmp' = tmp \ {job[f].id}
  /\ books' = markDownloaded(books, job[f].id, today)
  /\ rateLimitedUserIds' =
       [rateLimitedUserIds EXCEPT
          ![f] = refreshLimits(@, books', user_books, today, eligibleUsers[f])]
  /\ IterationEnd(f, "downloaded")
  /\ UNCHANGED <<callVars, cfgVars, today, user_books, cycleRunning, syncUser,
                 skippedBookIds, attempted>>

\* await sleep(QUEUE_COOLDOWN_MS) returns: back to the loop head.
Cooldown(f) ==
  /\ pc[f] = "cooldown"
  /\ pc' = [pc EXCEPT ![f] = "loop"]
  /\ outcome' = "none"
  /\ UNCHANGED <<callVars, cfgVars, today, dbVars, cycleRunning, syncUser, queueVars, tmp, files, copiedToday>>

flagAfterCycle_unlessThrown(threw) == threw

\* runCycle: try { ... } catch (err) { logError(...) }, then cycleRunning = false
\* on both ways out of the try (index.js 776-782)
flagAfterCycle(threw) == FALSE

\* processQueue has returned: notifications (if any) are sent, the cycle ends
\* and the flag is cleared.
EndCycle(f) ==
  /\ pc[f] = "notify"
  /\ cycleRunning' = flagAfterCycle(FALSE)
  /\ pc' = [pc EXCEPT ![f] = "idle"]
  /\ skippedBookIds' = [skippedBookIds EXCEPT ![f] = {}]
  /\ rateLimitedUserIds' = [rateLimitedUserIds EXCEPT ![f] = {}]
  /\ attempted' = [attempted EXCEPT ![f] = {}]
  /\ UNCHANGED <<callVars, cfgVars, today, dbVars, syncUser, job, eligibleUsers, outcome, tmp, files, copiedToday>>

\* ---- environment ----

\* Midnight passes.
Tick ==
  /\ today < MaxDay
  /\ today' = today + 1
  /\ copiedToday' = {}
  /\ UNCHANGED <<callVars, cfgVars, dbVars, cycleRunning, pc, syncUser, queueVars, outcome, tmp, files>>

\* a step of the pipeline process
CycleStep ==
  \/ \E trigger \in Triggers : RunCycle(trigger)
  \/ \E f \in Frames : SyncFeed(f)
  \/ \E f \in Frames : ProcessQueueStart(f)
  \/ \E f \in Frames : LoopBreak(f)
  \/ \E f \in Frames : LoopSkip(f)
  \/ \E f \in Frames : StartAttempt(f)
  \/ \E f \in Frames : SearchFound(f)
  \/ \E f \in Frames : SearchNotFound(f)
  \/ \E f \in Frames : DownloadFailed(f)
  \/ \E f \in Frames, path \in DownloadPaths, size \in Sizes : DownloadTooSmall(f, path, size)
  \/ \E f \in Frames, path \in DownloadPaths, size \in Sizes : CopyFailed(f, path, size)
  \/ \E f \in Frames, path \in DownloadPaths, size \in Sizes : DownloadSucceeded(f, path, size)
  \/ \E f \in Frames : Cooldown(f)
  \/ \E f \in Frames : EndCycle(f)

Next ==
  \/ CycleStep
  \/ Tick

Spec == Init /\ [][Next]_vars

\* ---- exceptions that leave processQueue ----

\* the cycle is over after an exception: logged by the catch of runCycle
CycleThrown(f) ==
  /\ cycleRunning' = flagAfterCycle(TRUE)
  /\ pc' = [pc EXCEPT ![f] = "idle"]
  /\ skippedBookIds' = [skippedBookIds EXCEPT ![f] = {}]
  /\ rateLimitedUserIds' = [rateLimitedUserIds EXCEPT ![f] = {}]
  /\ job' = [job EXCEPT ![f] = NoJob]
  /\ eligibleUsers' = [eligibleUsers EXCEPT ![f] = {}]
  /\ attempted' = [attempted EXCEPT ![f] = {}]
  /\ outcome' = "thrown"
  /\ UNCHANGED <<callVars, cfgVars, today, dbVars, syncUser, tmp, files, copiedToday>>

\* A statement of processQueue outside the try of the iteration throws (the
\* counts at the entry and at the loop head, getNextPending, getUsersForBook:
\* a locked or unreadable database): nothing was written.
QueueThrows(f) ==
  /\ pc[f] \in {"queue", "loop"}
  /\ CycleThrown(f)

\* The attempt fails, and in the catch block of the iteration markFailed
\* throws: the exception leaves processQueue with the attempt counted and the
\* status as it was.
CatchThrows(f) ==
  /\ pc[f] \in {"search", "download"}
  /\ ExhaustedAttempts(job[f])
  /\ CycleThrown(f)

\* a step of the cycle other than its start: an awaited operation (feed,
\* search, download, sleep, mail) has completed or timed out
Progress ==
  \/ \E f \in Frames : SyncFeed(f)
  \/ \E f \in Frames : ProcessQueueStart(f)
  \/ \E f \in Frames : LoopBreak(f)
  \/ \E f \in Frames : LoopSkip(f)
  \/ \E f \in Frames : StartAttempt(f)
  \/ \E f \in Frames : SearchFound(f)
  \/ \E f \in Frames : SearchNotFound(f)
  \/ \E f \in Frames : DownloadFailed(f)
  \/ \E f \in Frames, path \in DownloadPaths, size \in Sizes : DownloadTooSmall(f, path, size)
  \/ \E f \in Frames, path \in DownloadPaths, size \in Sizes : CopyFailed(f, path, size)
  \/ \E f \in Frames, path \in DownloadPaths, size \in Sizes : DownloadSucceeded(f, path, size)
  \/ \E f \in Frames : Cooldown(f)
  \/ \E f \in Frames : EndCycle(f)

NextFaults ==
  \/ CycleStep
  \/ \E f \in Frames : QueueThrows(f)
  \/ \E f \in Frames : CatchThrows(f)

\* the pipeline within one day with exceptions; every awaited operation of
\* a cycle completes or times out
SpecFaults == Init /\ [][NextFaults]_vars /\ WF_vars(Progress)

\* ---- process death ----

\* The process dies while a cycle is running (kill, power loss, container
\* restart): the store and the files stay as they are, a file being written
\* by downloadBook may be left, everything in memory is gone.  The next
\* process starts with the flag clear and runs the startup cycle.
ProcessDies ==
  /\ cycleRunning
  /\ \E partial \in BOOLEAN :
       tmp' = IF partial
                THEN tmp \cup {job[f].id : f \in {g \in Frames : pc[g] = "download"}}
                ELSE tmp
  /\ cycleRunning' = FALSE
  /\ pc' = [f \in Frames |-> "idle"]
  /\ syncUser' = [f \in Frames |-> 0]
  /\ skippedBookIds' = [f \in Frames |-> {}]
  /\ rateLimitedUserIds' = [f \in Frames |-> {}]
  /\ job' = [f \in Frames |-> NoJob]
  /\ eligibleUsers' = [f \in Frames |-> {}]
  /\ attempted' = [f \in Frames |-> {}]
  /\ outcome' = "none"
  /\ UNCHANGED <<callVars, cfgVars, today, dbVars, files, copiedToday>>

NextDeath ==
  \/ CycleStep
  \/ ProcessDies

\* the pipeline within one day, with the process dying at any moment of a cycle
SpecDeath == Init /\ [][NextDeath]_vars

\* ---- a queue of three books ----

\* The first user's shelf holds two books, the second user's a third one; one
\* download a day per user, the global limit above it.
InitThreeBooks ==
  /\ MAX_DOWNLOADS_PER_DAY = MaxCap
  /\ MAX_DOWNLOADS_PER_USER_PER_DAY = 1
  /\ feeds = [u \in Users |-> IF u = 1 THEN {Keys} ELSE {BookIds \ Keys}]
  /\ ServiceStart
  /\ bookRows = {}
  /\ arg = <<>>
  /\ ret = {}

NextThreeBooks == CycleStep

\* the pipeline within one day on these shelves
SpecThreeBooks == InitThreeBooks /\ [][NextThreeBooks]_vars

\* ---- administrative commands (separate processes on the same store) ----

resetLimits_none(bs, now) == bs

\* reset-limits.js: UPDATE books SET downloaded_at = date('now', '-1 day')
\*                  WHERE status = 'downloaded' AND date(downloaded_at) = date('now')
resetLimits(bs, now) ==
  [k \in BookIds |->
     IF bs[k].status = "downloaded" /\ bs[k].downloaded_at = {now}
       THEN [bs[k] EXCEPT !.downloaded_at = {now - 1}]
       ELSE bs[k]]

\* arg records that the command has been run
ResetLimits ==
  /\ books' = resetLimits(books, today)
  /\ arg' = <<"reset-limits">>
  /\ UNCHANGED <<bookRows, ret, cfgVars, today, user_books, cycleRunning, pc, syncUser, queueVars,
                 outcome, tmp, files, copiedToday>>

\* reset-db.js --confirm: DELETE FROM user_books; DELETE FROM books (users kept)
ResetDb ==
  /\ books' = [k \in BookIds |-> NoRow]
  /\ user_books' = {}
  /\ UNCHANGED <<callVars, cfgVars, today, cycleRunning, pc, syncUser, queueVars,
                 outcome, tmp, files, copiedToday>>

\* the pipeline within one day, with reset-db run at any moment
NextReset ==
  \/ CycleStep
  \/ ResetDb

SpecReset == Init /\ [][NextReset]_vars

\* the pipeline over the days, with reset-limits run at any moment
NextLimits ==
  \/ Next
  \/ ResetLimits

SpecLimits == Init /\ [][NextLimits]_vars

TypeOK ==
  /\ today \in Days
  /\ cycleRunning \in BOOLEAN
  /\ \A k \in BookIds : books[k].attempts \in 0..(MAX_ATTEMPTS + 1)

\* ---- the books table with all its columns ----
\* The pipeline above carries of a row what processQueue reads.  Here a row
\* has every column the statements of db.js name, the table is a set of rows,
\* and the statements are applied to it as ingestion and the queue apply them.

\* the values of a text column of a feed item; a nullable column holds {} or {v}
Texts == {"X", "Y"}
Nullable == {{}} \cup {{t} : t \in Texts}

\* pipeline variables the store-level steps leave alone
pipelineVars == <<cfgVars, cycleRunning, pc, syncUser, queueVars, outcome, tmp, files, copiedToday>>

HasRow(rows, key) == \E r \in rows : r.goodreads_book_id = key

\* SELECT ... FROM books WHERE goodreads_book_id = ?
getBookByGoodreadsId(rows, key) == CHOOSE r \in rows : r.goodreads_book_id = key

\* id INTEGER PRIMARY KEY AUTOINCREMENT
nextId(rows) == 1 + Cardinality(rows)

COALESCE_excluded(new, old) == new

\* COALESCE(excluded.c, books.c)
COALESCE(new, old) == IF new # {} THEN new ELSE old

\* INSERT INTO books (goodreads_book_id, isbn, title, author) VALUES (?, ?, ?, ?)
\* ON CONFLICT(goodreads_book_id) DO UPDATE SET isbn = COALESCE(excluded.isbn, books.isbn),
\*   title = ..., author = ..., updated_at = CURRENT_TIMESTAMP
upsertBookRow(rows, key, isbn, title, author, now) ==
  IF HasRow(rows, key)
    THEN {IF r.goodreads_book_id = key
            THEN [r EXCEPT !.isbn = COALESCE(isbn, @), !.title = COALESCE(title, @),
                           !.author = COALESCE(author, @), !.updated_at = {now}]
            ELSE r : r \in rows}
    ELSE rows \cup {[id |-> nextId(rows), goodreads_book_id |-> key,
                     isbn |-> isbn, title |-> title, author |-> author,
                     status |-> "pending", attempts |-> 0, file_path |-> {},
                     downloaded_at |-> {}, updated_at |-> {now}]}

\* incrementAttempts, markDownloaded, markFailed on the row of key: each also
\* sets updated_at = CURRENT_TIMESTAMP
incrementAttemptsRow(rows, key, now) ==
  {IF r.goodreads_book_id = key
     THEN [r EXCEPT !.attempts = @ + 1, !.updated_at = {now}] ELSE r : r \in rows}

markDownloadedRow(rows, key, now) ==
  {IF r.goodreads_book_id = key
     THEN [r EXCEPT !.status = "downloaded", !.file_path = {key},
                    !.downloaded_at = {now}, !.updated_at = {now}] ELSE r : r \in rows}

markFailedRow(rows, key, now) ==
  {IF r.goodreads_book_id = key
     THEN [r EXCEPT !.status = "failed", !.updated_at = {now}] ELSE r : r \in rows}

\* the table as the count statements read it: by book
asTable(rows) ==
  [k \in BookIds |-> IF HasRow(rows, k) THEN getBookByGoodreadsId(rows, k) ELSE NoRow]

\* stmts.upsertBookByGoodreadsId.run(goodreadsBookId, isbn, title, author)
UpsertBook(key, isbn, title, author) ==
  /\ bookRows' = upsertBookRow(bookRows, key, isbn, title, author, today)
  /\ arg' = <<key, isbn, title, author>>
  /\ UNCHANGED <<ret, pipelineVars, today, dbVars>>

NextUpsert ==
  \E key \in Keys, isbn \in Nullable, title \in Nullable, author \in Nullable :
    UpsertBook(key, isbn, title, author)

\* a fresh store; the limits play no part in ingestion
InitUpsert ==
  /\ Init
  /\ MAX_DOWNLOADS_PER_DAY = MaxCap
  /\ MAX_DOWNLOADS_PER_USER_PER_DAY = MaxCap

\* ingestion statements on a fresh store
SpecUpsert == InitUpsert /\ [][NextUpsert]_vars

\* syncRSS, one feed item of user u: upsert, then link the user to the row
IngestItem(u, key) ==
  /\ bookRows' = upsertBookRow(bookRows, key, {}, {"X"}, {"Y"}, today)
  /\ user_books' = linkUserBook(user_books, u, key)
  /\ UNCHANGED <<arg, ret, pipelineVars, today, books>>

\* a row the queue may select and attempt: pending, attempts left, a linked
\* user under the cap, the daily limit not reached
Attemptable(key) ==
  /\ HasRow(bookRows, key)
  /\ getBookByGoodreadsId(bookRows, key).status = "pending"
  /\ getBookByGoodreadsId(bookRows, key).attempts < MAX_ATTEMPTS
  /\ ~DailyLimitReached(countDownloadsToday(asTable(bookRows), today))
  /\ \E u \in getUsersForBook(user_books, key) :
       ~UserLimitReached(countUserDownloadsToday(asTable(bookRows), user_books, today, u))

\* an iteration of processQueue that succeeds: incrementAttempts, markDownloaded
AttemptRowSucceeds(key) ==
  /\ Attemptable(key)
  /\ bookRows' = markDownloadedRow(incrementAttemptsRow(bookRows, key, today), key, today)
  /\ UNCHANGED <<arg, ret, pipelineVars, today, dbVars>>

\* an iteration that fails: incrementAttempts, then the catch block
AttemptRowFails(key) ==
  /\ Attemptable(key)
  /\ bookRows' =
       IF ExhaustedAttempts(getBookByGoodreadsId(bookRows, key))
         THEN markFailedRow(incrementAttemptsRow(bookRows, key, today), key, today)
         ELSE incrementAttemptsRow(bookRows, key, today)
  /\ UNCHANGED <<arg, ret, pipelineVars, today, dbVars>>

\* midnight passes
TickStore ==
  /\ today < MaxDay
  /\ today' = today + 1
  /\ UNCHANGED <<callVars, pipelineVars, dbVars>>

NextIngest ==
  \/ \E u \in Users, key \in Keys : IngestItem(u, key)
  \/ \E key \in Keys : AttemptRowSucceeds(key)
  \/ \E key \in Keys : AttemptRowFails(key)
  \/ TickStore

\* ingestion and the queue's statements on the full table, over the days
SpecIngest == Init /\ [][NextIngest]_vars

\* ---- fuzzy matching (pure functions on strings) ----
\* A string is a sequence of characters.

\* the characters of a title: letters, an upper-case letter, space, punctuation
Chars == {"a", "b", "C", " ", "(", ")"}

Titles == UNION {[1..n -> Chars] : n \in 0..MaxLen}

\* String.prototype.toLowerCase, by character
toLowerCase(str) == [i \in 1..Len(str) |-> IF str[i] = "C" THEN "c" ELSE str[i]]

\* \w and \s of the regular expressions
IsSpace(c) == c = " "
IsWord(c) == c \notin {" ", "(", ")", ":"}

\* .replace(/\(.*?\)/g, ''): from the leftmost "(" that has a ")" after it up
\* to the first such ")", repeatedly from the left
RECURSIVE stripParens(_)
stripParens(str) ==
  LET opens == {i \in 1..Len(str) : str[i] = "(" /\ \E j \in (i+1)..Len(str) : str[j] = ")"}
  IN IF opens = {} THEN str
     ELSE LET i == CHOOSE x \in opens : \A y \in opens : x <= y
              j == CHOOSE x \in (i+1)..Len(str) :
                     str[x] = ")" /\ \A y \in (i+1)..(x-1) : str[y] # ")"
          IN SubSeq(str, 1, i - 1) \o stripParens(SubSeq(str, j + 1, Len(str)))

\* .replace(/:\s*a novel$/i, '')
stripNovel(str) ==
  LET novel == <<"a", " ", "n", "o", "v", "e", "l">>
      hits == {i \in 1..Len(str) :
                 /\ str[i] = ":"
                 /\ Len(str) - i >= 7
                 /\ SubSeq(str, Len(str) - 6, Len(str)) = novel
                 /\ \A j \in (i+1)..(Len(str) - 7) : IsSpace(str[j])}
  IN IF hits = {} THEN str
     ELSE SubSeq(str, 1, (CHOOSE x \in hits : \A y \in hits : x <= y) - 1)

\* .replace(/[^\w\s]/g, '')
stripPunctuation(str) == SelectSeq(str, LAMBDA c : IsWord(c) \/ IsSpace(c))

\* .replace(/\s+/g, ' ')
RECURSIVE collapseSpaces(_)
collapseSpaces(str) ==
  IF Len(str) <= 1 THEN str
  ELSE IF IsSpace(str[1]) /\ IsSpace(str[2])
         THEN collapseSpaces(Tail(str))
         ELSE <<str[1]>> \o collapseSpaces(Tail(str))

\* .trim()
RECURSIVE trim(_)
trim(str) ==
  IF str = <<>> THEN str
  ELSE IF IsSpace(str[1]) THEN trim(Tail(str))
  ELSE IF IsSpace(str[Len(str)]) THEN trim(SubSeq(str, 1, Len(str) - 1))
  ELSE str

\* normalizeText(str)
normalizeText(str) ==
  IF str = <<>> THEN <<>>
  ELSE trim(collapseSpaces(stripPunctuation(stripNovel(stripParens(toLowerCase(str))))))

\* str.split(' ').filter(Boolean)
RECURSIVE splitWords(_, _)
splitWords(str, word) ==
  IF str = <<>> THEN (IF word = <<>> THEN <<>> ELSE <<word>>)
  ELSE IF str[1] = " "
         THEN (IF word = <<>> THEN <<>> ELSE <<word>>) \o splitWords(Tail(str), <<>>)
         ELSE splitWords(Tail(str), Append(word, str[1]))

\* new Set(normalizeText(x).split(' ').filter(Boolean))
wordSet(str) ==
  LET ws == splitWords(normalizeText(str), <<>>) IN {ws[i] : i \in 1..Len(ws)}

bySize_asGiven(wordsA, wordsB) == <<wordsA, wordsB>>

\* const [smaller, larger] = wordsA.size <= wordsB.size ? [wordsA, wordsB] : [wordsB, wordsA]
bySize(wordsA, wordsB) ==
  IF Cardinality(wordsA) <= Cardinality(wordsB) THEN <<wordsA, wordsB>> ELSE <<wordsB, wordsA>>

\* wordOverlap(a, b): the quotient matches / smaller.size as <<numerator, denominator>>
wordOverlap(a, b) ==
  LET wordsA == wordSet(a)
      wordsB == wordSet(b)
  IN IF wordsA = {} \/ wordsB = {} THEN <<0, 1>>
     ELSE LET smaller == bySize(wordsA, wordsB)[1]
              larger == bySize(wordsA, wordsB)[2]
              matches == Cardinality({w \in smaller : w \in larger})
          IN <<matches, Cardinality(smaller)>>

\* an expected and a candidate title
InitMatch ==
  /\ PipelineInit
  /\ MAX_DOWNLOADS_PER_DAY = MaxCap
  /\ MAX_DOWNLOADS_PER_USER_PER_DAY = MaxCap
  /\ bookRows = {}
  /\ arg \in Titles \X Titles
  /\ ret = {}

\* const titleScore = wordOverlap(expectedTitle, resultTitle)
CallWordOverlap ==
  /\ ret = {}
  /\ ret' = {wordOverlap(arg[1], arg[2])}
  /\ UNCHANGED <<bookRows, arg, pipelineVars, today, dbVars>>

NextMatch == CallWordOverlap

SpecMatch == InitMatch /\ [][NextMatch]_vars

\* String.prototype.includes
includes(str, part) ==
  \E i \in 0..(Len(str) - Len(part)) : SubSeq(str, i + 1, i + Len(part)) = part

\* normalizeText(expectedAuthor).split(' ').filter(w => w.length > 2)
expectedParts(expectedAuthor) ==
  SelectSeq(splitWords(normalizeText(expectedAuthor), <<>>), LAMBDA w : Len(w) > 2)

belowThreshold_inclusive(score) == 10 * score[1] <= 7 * score[2]

\* if (titleScore < 0.7), on the quotient <<numerator, denominator>>
belowThreshold(score) == 10 * score[1] < 7 * score[2]

\* isGoodMatch(expectedTitle, expectedAuthor, resultTitle, resultAuthor);
\* a missing author (null, '') is the empty string
isGoodMatch(expectedTitle, expectedAuthor, resultTitle, resultAuthor) ==
  LET titleScore == wordOverlap(expectedTitle, resultTitle)
  IN IF belowThreshold(titleScore) THEN FALSE
     ELSE IF expectedAuthor # <<>>
       THEN LET parts == expectedParts(expectedAuthor)
                resultAuthorNorm == normalizeText(resultAuthor)
                authorHit == \E n \in 1..Len(parts) : includes(resultAuthorNorm, parts[n])
            IN authorHit
       ELSE TRUE

\* titles for the threshold: an expected title of ten words, and listed titles
\* of ten words that share the first n of them
TitleWords == <<"a", "b", "c", "d", "e", "f", "g", "h", "i", "j">>
OtherWords == <<"k", "l", "m", "n", "o", "p", "q", "r", "s", "t">>

RECURSIVE joinWords(_)
joinWords(ws) ==
  IF ws = <<>> THEN <<>>
  ELSE IF Len(ws) = 1 THEN <<ws[1]>>
  ELSE <<ws[1], " ">> \o joinWords(Tail(ws))

sharing(n) == joinWords([i \in 1..Len(TitleWords) |-> IF i <= n THEN TitleWords[i] ELSE OtherWords[i]])

ExpectedTitles == {<<>>, sharing(Len(TitleWords))}
ResultTitles == {<<>>} \cup {sharing(n) : n \in 0..Len(TitleWords)}

\* author strings: two letters (one upper-case) and the space
AuthorChars == {"a", "C", " "}
Authors(len) == UNION {[1..n -> AuthorChars] : n \in 0..len}

InitGoodMatch ==
  /\ PipelineInit
  /\ MAX_DOWNLOADS_PER_DAY = MaxCap
  /\ MAX_DOWNLOADS_PER_USER_PER_DAY = MaxCap
  /\ bookRows = {}
  /\ arg \in ExpectedTitles \X Authors(MaxLen) \X ResultTitles \X Authors(MaxLen + 1)
  /\ ret = {}

\* if (isGoodMatch(expectedTitle, expectedAuthor, resultTitle, resultAuthor))
CallIsGoodMatch ==
  /\ ret = {}
  /\ ret' = {isGoodMatch(arg[1], arg[2], arg[3], arg[4])}
  /\ UNCHANGED <<bookRows, arg, pipelineVars, today, dbVars>>

NextGoodMatch == CallIsGoodMatch

SpecGoodMatch == InitGoodMatch /\ [][NextGoodMatch]_vars

\* ---- findBookOnAnna ----
\* The search awaits one request per mirror; everything between two requests
\* runs without interruption.  arg holds <<the number of mirrors queried, the
\* response of the last one, the query>>, ret the outcome of the search once
\* it is over.

\* a UTF-16 code unit of a surrogate pair without its partner
LoneSurrogate == "\\uD800"

\* the search terms: a title with a space, and one with a lone surrogate
Queries == {<<"a", " ", "b">>, <<"a", LoneSurrogate>>}

\* encodeURIComponent(query): throws URIError on a lone surrogate, escapes
\* every character that is not unreserved
encodeURIComponent(query) ==
  IF \E n \in 1..Len(query) : query[n] = LoneSurrogate
    THEN [thrown |-> TRUE, value |-> <<>>]
    ELSE [thrown |-> FALSE,
          value |-> [n \in 1..Len(query) |-> IF query[n] = " " THEN "%20" ELSE query[n]]]

\* what the search is asked to find: findBookOnAnna(searchTerm, job.title, job.author)
expectedTitle == <<"a">>
expectedAuthor == <<>>

\* one result of a listing: the href of its /md5/ link (one the pattern
\* /\/md5\/([a-fA-F0-9]+)/ matches or not; a result without the link is
\* skipped by the same continue as one with an unparsable link) and its title
Results ==
  {[href |-> "unparsable", title |-> <<"a">>],
   [href |-> "md5", title |-> <<"a">>],
   [href |-> "md5", title |-> <<"b">>]}

\* the result divs of a page: up to one more than are checked
Listings == UNION {[1..n -> Results] : n \in 0..(MAX_RESULTS_TO_CHECK + 1)}

\* what a request to a mirror comes to: the proxy answers with a status other
\* than 200, with a solve status other than ok, with a page without the
\* results container, with a page with the container; or the request or the
\* parsing throws
FailedResponses ==
  {[kind |-> k, results |-> <<>>] : k \in {"http_error", "solve_failed", "no_container", "exception"}}
Responses == FailedResponses \cup {[kind |-> "page", results |-> l] : l \in Listings}

NoResponse == [kind |-> "none", results |-> <<>>]

\* isGoodMatch(expectedTitle, expectedAuthor, title, author) for each title a
\* result can have; the result's author is not looked at without an expected one
goodMatch ==
  [title \in {result.title : result \in Results} |->
     isGoodMatch(expectedTitle, expectedAuthor, title, <<>>)]

\* for (let r = 0; r < toCheck; r++): the position of the first result with a
\* parsable md5 that isGoodMatch accepts, 0 if there is none
RECURSIVE checkResults(_, _, _)
checkResults(resultDivs, r, toCheck) ==
  IF r > toCheck THEN 0
  ELSE IF resultDivs[r].href # "md5" THEN checkResults(resultDivs, r + 1, toCheck)
  ELSE IF goodMatch[resultDivs[r].title] THEN r
  ELSE checkResults(resultDivs, r + 1, toCheck)

toCheck_all(resultDivs) == Len(resultDivs)

\* Math.min(resultDivs.length, MAX_RESULTS_TO_CHECK)
toCheck(resultDivs) ==
  IF Len(resultDivs) < MAX_RESULTS_TO_CHECK THEN Len(resultDivs) ELSE MAX_RESULTS_TO_CHECK

\* the body of the mirror loop after the response: 0 for every continue
\* (and for the end of the inner loop), the position of the match otherwise
matchOnMirror(response) ==
  IF response.kind # "page" THEN 0
  ELSE IF Len(response.results) = 0 THEN 0
  ELSE checkResults(response.results, 1, toCheck(response.results))

\* the URL returned for a match (fast_download or detail page: the same
\* domain and md5 in both), null, or an exception leaving the function
Reference(domain, position) == [kind |-> "url", domain |-> domain, md5 |-> position]
NotFound == [kind |-> "null", domain |-> "", md5 |-> 0]
Raised == [kind |-> "raised", domain |-> "", md5 |-> 0]

InitSearch ==
  /\ MAX_DOWNLOADS_PER_DAY = MaxCap
  /\ MAX_DOWNLOADS_PER_USER_PER_DAY = MaxCap
  /\ feeds = [u \in Users |-> SUBSET Keys]
  /\ ServiceStart
  /\ bookRows = {}
  /\ arg \in {<<0, NoResponse, query>> : query \in Queries}
  /\ ret = {}

\* The URL of the next mirror cannot be built: encodeURIComponent throws
\* outside the try of the loop body, the exception leaves findBookOnAnna.
SearchUrlThrows ==
  /\ ret = {}
  /\ arg[1] < Len(AA_DOMAINS)
  /\ encodeURIComponent(arg[3]).thrown
  /\ ret' = {Raised}
  /\ UNCHANGED <<bookRows, arg, pipelineVars, today, dbVars>>

\* The request to the next mirror is answered (or throws): a match returns
\* its URL; otherwise the loop goes to the next mirror, and past the last one
\* the function returns null.
QueryMirror(response) ==
  /\ ret = {}
  /\ arg[1] < Len(AA_DOMAINS)
  /\ ~encodeURIComponent(arg[3]).thrown
  /\ LET i == arg[1] + 1
         hit == matchOnMirror(response)
     IN /\ arg' = <<i, response, arg[3]>>
        /\ ret' = IF hit > 0 THEN {Reference(AA_DOMAINS[i], hit)}
                  ELSE IF i = Len(AA_DOMAINS) THEN {NotFound}
                  ELSE {}
  /\ UNCHANGED <<bookRows, pipelineVars, today, dbVars>>

NextSearch ==
  \/ SearchUrlThrows
  \/ \E response \in Responses : QueryMirror(response)

SpecSearch == InitSearch /\ [][NextSearch]_vars

\* ---- reference form and download path ----
\* A URL is the sequence of its tokens.  arg holds <<AA_API_KEY, the index of
\* the mirror of the match, its md5>>, ret the URL the search returned and
\* the path downloadBook took for it.

\* process.env.AA_API_KEY: undefined, the empty string, or a key
ApiKeys == {{}, {""}, {"key1"}, {"key2"}}

\* the identifiers the md5 pattern captures
Md5s == {"0a", "1b", "2c", "3d", "4e", "5f", "60", "71"}

truthy_defined(value) == value # {}

\* if (AA_API_KEY): undefined and the empty string are falsy
truthy(value) == value # {} /\ value # {""}

\* `https://${domain}/fast_download/${md5}/0/0?key=${AA_API_KEY}`
fastDownloadUrl(domain, md5, key) ==
  <<"https:", "/", "/", domain, "/", "fast_download", "/", md5, "/", "0", "/", "0", "?key=">>
    \o [n \in 1..Cardinality(key) |-> CHOOSE k \in key : TRUE]

\* `https://${domain}/md5/${md5}`
detailUrl(domain, md5) ==
  <<"https:", "/", "/", domain, "/", "md5", "/", md5>>

\* the URL returned for a match (index.js 446-455)
referenceUrl(domain, md5, key) ==
  IF truthy(key) THEN fastDownloadUrl(domain, md5, key) ELSE detailUrl(domain, md5)

\* if (url.includes('/fast_download/')): the browser, otherwise the stream
downloadPath(url) ==
  IF includes(url, <<"/", "fast_download", "/">>) THEN "browser" ELSE "stream"

InitReference ==
  /\ MAX_DOWNLOADS_PER_DAY = MaxCap
  /\ MAX_DOWNLOADS_PER_USER_PER_DAY = MaxCap
  /\ feeds = [u \in Users |-> SUBSET Keys]
  /\ ServiceStart
  /\ bookRows = {}
  /\ arg \in ApiKeys \X (1..Len(AA_DOMAINS)) \X Md5s
  /\ ret = {}

\* findBookOnAnna returns the URL of the match to processQueue
ReturnReference ==
  /\ ret = {}
  /\ ret' = {[url |-> referenceUrl(AA_DOMAINS[arg[2]], arg[3], arg[1]), path |-> "none"]}
  /\ UNCHANGED <<bookRows, arg, pipelineVars, today, dbVars>>

\* downloadBook(downloadUrl, job) chooses its path
DownloadBook ==
  /\ \E v \in ret :
       /\ v.path = "none"
       /\ ret' = {[v EXCEPT !.path = downloadPath(v.url)]}
  /\ UNCHANGED <<bookRows, arg, pipelineVars, today, dbVars>>

NextReference == ReturnReference \/ DownloadBook

SpecReference == InitReference /\ [][NextReference]_vars

\* ---- downloadWithBrowser ----
\* arg holds the state of the call: its position, the number of open browser
\* instances, the download directory, the snapshot taken before navigation,
\* the time since navigation and the locals of the poll loop.  ret is {}
\* while the call runs and holds its result once it has returned or raised.

\* file names, token by token
OldFile == <<"old", ".epub">>
BookFile == <<"book", ".epub">>
PartialFile == <<"book", ".epub", ".crdownload">>

\* f.endsWith(suffix)
endsWith(f, suffix) == f[Len(f)] = suffix

\* sizes in bytes of a file the browser writes
FileSizes == {0, 512, 2048}

\* a directory is the set of <<name, size>> of its files
readdirSync(dir) == {e[1] : e \in dir}
statSync(dir, f) == (CHOOSE e \in dir : e[1] = f)[2]

\* what the download directory holds when the call starts: files of
\* earlier attempts or none
DirsAtCall == {{}, {<<OldFile, 2048>>}}

\* what the browser may have made of the directory while the call slept:
\* the files of the snapshot stay, the download's files come, grow and go
DirsLater(dir, filesBefore) ==
  {{e \in dir : e[1] \in filesBefore} \cup partial \cup complete :
     partial \in {{}, {<<PartialFile, 512>>}},
     complete \in {{}} \cup {{<<BookFile, size>>} : size \in FileSizes}}

\* completed[0]: readdirSync lists the names in order
first(names) == CHOOSE f \in names : \A g \in names : f[1] = g[1] \/ f[1] = "book"

\* filesNow.filter(f => !filesBefore.has(f))
newFiles(dir, filesBefore) == readdirSync(dir) \ filesBefore
inProgress(dir, filesBefore) == {f \in newFiles(dir, filesBefore) : endsWith(f, ".crdownload")}
completed(dir, filesBefore) == {f \in newFiles(dir, filesBefore) : ~endsWith(f, ".crdownload")}

stable_nonzero(size1, size2) == size2 > 0

\* if (size1 === size2 && size1 > 0)
stable(size1, size2) == size1 = size2 /\ size1 > 0

\* if (Date.now() - dlStart > 90000)
noProgress(elapsed) == elapsed > NO_PROGRESS_LIMIT

\* while (Date.now() - dlStart < timeoutMs)
withinTimeout(elapsed) == elapsed < timeoutMs

closeBrowser_leak(browsers) == browsers

\* finally { await browser.close() }
closeBrowser(browsers) == browsers - 1

BrowserIdle ==
  [pc |-> "idle", browsers |-> 0, dir |-> {}, filesBefore |-> {}, elapsed |-> 0,
   candidate |-> <<>>, size1 |-> 0, crSeen |-> FALSE, pending |-> "none"]

InitBrowser ==
  /\ MAX_DOWNLOADS_PER_DAY = MaxCap
  /\ MAX_DOWNLOADS_PER_USER_PER_DAY = MaxCap
  /\ feeds = [u \in Users |-> SUBSET Keys]
  /\ ServiceStart
  /\ bookRows = {}
  /\ arg = BrowserIdle
  /\ ret = {}

BrowserFrame == UNCHANGED <<bookRows, pipelineVars, today, dbVars>>

\* downloadBook calls downloadWithBrowser: launch is awaited.  The caller
\* awaits the call, so the next one starts after this one has settled.
CallDownloadWithBrowser ==
  /\ arg.pc \in {"idle", "settled"}
  /\ \E dir \in DirsAtCall :
       arg' = [BrowserIdle EXCEPT !.pc = "launch", !.browsers = arg.browsers, !.dir = dir]
  /\ ret' = {}
  /\ BrowserFrame

\* launch returns a browser, or throws before the try block is entered
LaunchReturns(ok) ==
  /\ arg.pc = "launch"
  /\ IF ok
       THEN /\ arg' = [arg EXCEPT !.pc = "challenge", !.browsers = @ + 1]
            /\ ret' = ret
       ELSE /\ arg' = [arg EXCEPT !.pc = "settled"]
            /\ ret' = {"launch_error"}
  /\ BrowserFrame

\* an exception inside the try block: the finally block runs next
throw(error) == [arg EXCEPT !.pc = "finally", !.pending = error]

\* page.goto(baseUrl) and waitForCloudflare: passed, or the challenge timed out
Challenge(ok) ==
  /\ arg.pc = "challenge"
  /\ arg' = IF ok THEN [arg EXCEPT !.pc = "login"] ELSE throw("challenge_timeout")
  /\ ret' = ret
  /\ BrowserFrame

\* the login: done (the download behaviour set, the directory snapshot taken,
\* the navigation started, dlStart taken, the first sleep awaited), or failed
Login(ok) ==
  /\ arg.pc = "login"
  /\ arg' = IF ok
              THEN [arg EXCEPT !.pc = "poll", !.filesBefore = readdirSync(arg.dir), !.elapsed = 0]
              ELSE throw("login_failed")
  /\ ret' = ret
  /\ BrowserFrame

\* the rest of a pass of the poll loop once no candidate is accepted: continue
\* with a file in progress, the diagnostics after the no-progress limit,
\* the next pass while the time is not up, "timed out" after the loop
afterCandidate(state, crSeen) ==
  IF ~crSeen /\ noProgress(state.elapsed) THEN "no_progress"
  ELSE IF withinTimeout(state.elapsed) THEN "poll"
  ELSE "timeout"

passEnds(state, crSeen) ==
  LET next == afterCandidate(state, crSeen)
  IN IF next = "poll" THEN [state EXCEPT !.pc = "poll"]
     ELSE [state EXCEPT !.pc = "finally", !.pending = next]

\* await sleep(3000) returns: the directory is read; a completed new file is
\* measured and sleep(2000) awaited, otherwise the pass ends
PollWakes ==
  /\ arg.pc = "poll"
  /\ \E dir \in DirsLater(arg.dir, arg.filesBefore) :
       LET woken == [arg EXCEPT !.dir = dir, !.elapsed = @ + POLL_INTERVAL]
           done == completed(dir, arg.filesBefore)
           crSeen == inProgress(dir, arg.filesBefore) # {}
       IN arg' = IF done # {}
                   THEN [woken EXCEPT !.pc = "recheck",
                                      !.candidate = first(done),
                                      !.size1 = statSync(dir, first(done)),
                                      !.crSeen = crSeen]
                   ELSE passEnds(woken, crSeen)
  /\ ret' = ret
  /\ BrowserFrame

\* await sleep(2000) returns: the candidate is measured again (statSync throws
\* if it is gone) and accepted if stable; otherwise the pass ends, statSync of the
\* file in progress throwing if that one is gone
RecheckWakes ==
  /\ arg.pc = "recheck"
  /\ \E dir \in DirsLater(arg.dir, arg.filesBefore) :
       LET woken == [arg EXCEPT !.dir = dir, !.elapsed = @ + SIZE_RECHECK,
                                !.candidate = <<>>, !.size1 = 0, !.crSeen = FALSE]
       IN arg' = IF arg.candidate \notin readdirSync(dir)
                   THEN [woken EXCEPT !.pc = "finally", !.pending = "error"]
                 ELSE IF stable(arg.size1, statSync(dir, arg.candidate))
                   THEN [woken EXCEPT !.pc = "finally", !.pending = "accepted",
                                      !.candidate = arg.candidate, !.size1 = arg.size1]
                 ELSE IF arg.crSeen /\ PartialFile \notin readdirSync(dir)
                   THEN [woken EXCEPT !.pc = "finally", !.pending = "error"]
                 ELSE passEnds(woken, arg.crSeen)
  /\ ret' = ret
  /\ BrowserFrame

\* the finally block: browser.close() is awaited, then the call returns the
\* path or raises the pending exception
BrowserCloses ==
  /\ arg.pc = "finally"
  /\ arg' = [arg EXCEPT !.pc = "settled", !.browsers = closeBrowser(@), !.pending = "none"]
  /\ ret' = {arg.pending}
  /\ BrowserFrame

NextBrowser ==
  \/ CallDownloadWithBrowser
  \/ \E ok \in BOOLEAN : LaunchReturns(ok)
  \/ \E ok \in BOOLEAN : Challenge(ok)
  \/ \E ok \in BOOLEAN : Login(ok)
  \/ PollWakes
  \/ RecheckWakes
  \/ BrowserCloses

SpecBrowser == InitBrowser /\ [][NextBrowser]_vars

\* ---- the day of the daily counts ----
\* Time in hours.  arg holds <<the offset of the process's time zone from UTC,
\* the UTC time>>; downloaded_at holds the UTC time of the download, as
\* CURRENT_TIMESTAMP stores it; ret holds the counts just read.

\* hours east of UTC
Offsets == {0 - 12, 0 - 1, 0, 1, 14}

\* SQLite date(x): the calendar day of a UTC time; CURRENT_TIMESTAMP and
\* 'now' are UTC, and no 'localtime' modifier is given
date(timestamp) == timestamp \div 24

\* the calendar day of a UTC time on the process's clock
localDate(timestamp, offset) == (timestamp + offset) \div 24

\* ... WHERE status = 'downloaded' AND date(downloaded_at) = date('now')
countDownloadsTodayAt(bs, clock) ==
  Cardinality({k \in BookIds : /\ bs[k].status = "downloaded"
                             /\ \E t \in bs[k].downloaded_at : date(t) = date(clock)})

\* ... JOIN user_books ... AND user_books.user_id = ?
countUserDownloadsTodayAt(bs, ls, clock, u) ==
  Cardinality({k \in BookIds : /\ bs[k].status = "downloaded"
                             /\ \E t \in bs[k].downloaded_at : date(t) = date(clock)
                             /\ <<u, k>> \in ls})

InitClock ==
  /\ MAX_DOWNLOADS_PER_DAY = MaxCap
  /\ MAX_DOWNLOADS_PER_USER_PER_DAY = MaxCap
  /\ feeds = [u \in Users |-> SUBSET Keys]
  /\ ServiceStart
  /\ bookRows = {}
  /\ arg \in {<<offset, 0>> : offset \in Offsets}
  /\ ret = {}

ClockFrame == UNCHANGED <<bookRows, pipelineVars, today>>

\* ingestion has stored the shelves: two pending books, the first on both
\* users' shelves, the second on the first user's
IngestShelves ==
  /\ user_books = {}
  /\ books' = upsertAll(books, Keys, arg[2])
  /\ user_books' = {<<1, 1>>, <<1, 2>>, <<LastUser, 1>>}
  /\ UNCHANGED <<arg, ret>>
  /\ ClockFrame

\* an hour passes
ClockTick ==
  /\ arg[2] < MaxHour
  /\ arg' = <<arg[1], arg[2] + 1>>
  /\ ret' = {}
  /\ UNCHANGED dbVars
  /\ ClockFrame

\* stmts.markDownloaded.run(path, job.id)
MarkDownloadedNow(k) ==
  /\ books[k].status = "pending"
  /\ books' = markDownloaded(books, k, arg[2])
  /\ ret' = {}
  /\ UNCHANGED <<arg, user_books>>
  /\ ClockFrame

\* stmts.countDownloadsToday.get() and stmts.countUserDownloadsToday.get(user.id)
CountToday ==
  /\ ret' = {[global |-> countDownloadsTodayAt(books, arg[2]),
              user |-> [u \in Users |-> countUserDownloadsTodayAt(books, user_books, arg[2], u)]]}
  /\ UNCHANGED <<arg, dbVars>>
  /\ ClockFrame

NextClock ==
  \/ IngestShelves
  \/ ClockTick
  \/ \E k \in Keys : MarkDownloadedNow(k)
  \/ CountToday

SpecClock == InitClock /\ [][NextClock]_vars

\* ---- claims ----

ActiveFrames == {f \in Frames : pc[f] # "idle"}

\* C1: at most one cycle is active at any moment; while the flag is set no
\* trigger starts a cycle and nothing is kept of it: a frame leaves idle only
\* in a runCycle call that found the flag clear, and that call sets the flag.
C1_SingleFlight ==
  /\ [](Cardinality(ActiveFrames) <= 1)
  /\ [][\A f \in Frames :
          (pc[f] = "idle" /\ pc'[f] # "idle")
            => /\ ~cycleRunning /\ cycleRunning'
               /\ ActiveFrames = {}
               /\ pc'[f] = "sync"
               /\ \E trigger \in Triggers : RunCycle(trigger)]_vars

\* a cycle is suspended at an await of its queue processing, where a trigger
\* can be served, and it is the only one
C1_Witness ==
  /\ cycleRunning
  /\ \E f \in Frames : pc[f] = "search" /\ ActiveFrames = {f}

\* books with status = downloaded whose downloaded_at falls on day d
DownloadedOn(d) ==
  {k \in Keys : books[k].status = "downloaded" /\ books[k].downloaded_at = {d}}

\* a frame whose attempt starts in this step
AttemptStarts(f) == pc[f] = "loop" /\ pc'[f] = "search"

\* C2: for every day, the number of books downloaded on that day never
\* exceeds MAX_DOWNLOADS_PER_DAY, and no item is pulled while today's count
\* has reached the cap.
C2_GlobalDailyCap ==
  /\ [](\A d \in Days : Cardinality(DownloadedOn(d)) <= MAX_DOWNLOADS_PER_DAY)
  /\ [][\A f \in Frames :
          AttemptStarts(f) => Cardinality(DownloadedOn(today)) < MAX_DOWNLOADS_PER_DAY]_vars

\* the loop stopped at the cap after a download of this cycle, a pending book is left
C2_Witness ==
  \E f \in Frames :
    /\ pc[f] = "notify"
    /\ attempted[f] # {}
    /\ Cardinality(DownloadedOn(today)) = MAX_DOWNLOADS_PER_DAY
    /\ pendingRows(books, {}) # {}

\* books copied into the delivery path of user u today
CopiedTo(u) == {k \in Keys : <<u, k>> \in copiedToday}

\* C3 (as claimed): for every user and every day, the number of books copied
\* into the user's delivery path on that day never exceeds
\* MAX_DOWNLOADS_PER_USER_PER_DAY.
C3_PerUserDailyCap ==
  \A u \in Users : Cardinality(CopiedTo(u)) <= MAX_DOWNLOADS_PER_USER_PER_DAY

\* C4: attempts never exceeds MAX_ATTEMPTS and never decreases; it changes
\* only when an attempt on that book starts, by exactly one, and only from a
\* value below MAX_ATTEMPTS.
C4_AttemptsBounded ==
  /\ [](\A k \in Keys : books[k].attempts <= MAX_ATTEMPTS)
  /\ [][\A k \in Keys :
          \/ books'[k].attempts = books[k].attempts
          \/ /\ books'[k].attempts = books[k].attempts + 1
             /\ books[k].attempts < MAX_ATTEMPTS
             /\ books[k].status = "pending"
             /\ \E f \in Frames : AttemptStarts(f) /\ job'[f].id = k]_vars

\* the last attempt of a book is under way
C4_Witness ==
  \E f \in Frames :
    /\ pc[f] = "search"
    /\ job[f].attempts = MAX_ATTEMPTS - 1
    /\ books[job[f].id].attempts = MAX_ATTEMPTS

\* a frame whose attempt on book k ends in failure in this step
AttemptFails(f, k) ==
  /\ pc[f] \in {"search", "download"}
  /\ job[f].id = k
  /\ pc'[f] = "cooldown"
  /\ books'[k].status # "downloaded"

\* C5: a book becomes failed exactly in the step in which the attempt that
\* brought attempts to MAX_ATTEMPTS fails: a book that becomes failed has
\* attempts = MAX_ATTEMPTS and its attempt fails in that step, and a failing
\* attempt of a book with attempts = MAX_ATTEMPTS makes it failed.
C5_FailedExactlyAtLastAttempt ==
  [][\A k \in Keys :
       /\ (books[k].status # "failed" /\ books'[k].status = "failed")
            => /\ books[k].attempts = MAX_ATTEMPTS
               /\ books'[k].attempts = MAX_ATTEMPTS
               /\ \E f \in Frames : AttemptFails(f, k)
       /\ \A f \in Frames :
            (AttemptFails(f, k) /\ books[k].status = "pending")
              => (books'[k].status = "failed" <=> books[k].attempts = MAX_ATTEMPTS)]_vars

\* the fifth attempt of a book has just failed
C5_Witness ==
  \E f \in Frames, k \in Keys :
    /\ pc[f] = "cooldown"
    /\ k \in attempted[f]
    /\ books[k].status = "failed"

\* C6: every book with status = failed has attempts = MAX_ATTEMPTS.
C6_FailedHasMaxAttempts ==
  \A k \in Keys : books[k].status = "failed" => books[k].attempts = MAX_ATTEMPTS

\* a permanently failed book, no cycle running
C6_Witness ==
  /\ ~cycleRunning
  /\ \E k \in Keys : books[k].status = "failed"

Terminal(k) == books[k].status \in {"downloaded", "failed"}

\* C7: a book that is downloaded or failed is not selected by the queue and
\* no step of the pipeline changes its row; only reset-db takes it out of its
\* terminal state (the row is deleted, and the next ingestion queues the book
\* as pending again).
C7_TerminalIsFinal ==
  [][\A k \in Keys :
       Terminal(k) =>
         \/ /\ books'[k] = books[k]
            /\ \A f \in Frames : job'[f].id # k /\ k \notin skippedBookIds'[f]
         \/ ResetDb /\ books'[k] = NoRow]_vars

\* a book delivered earlier is pending again with no attempt: it was reset
\* and ingested again
C7_Witness ==
  \E k \in Keys, u \in Users :
    /\ <<u, k>> \in files
    /\ books[k].status = "pending"
    /\ books[k].attempts = 0

\* C8 (as claimed): within one cycle a book is attempted at most once; after
\* a failed attempt the next attempt of the book belongs to a later cycle.
C8_OneAttemptPerCycle ==
  [][\A f \in Frames : AttemptStarts(f) => job'[f].id \notin attempted[f]]_vars

\* C9: when queue processing starts with today's count at or above the cap,
\* processQueue returns at once: no attempt starts, no row, file or local of
\* the queue changes.
C9_NothingAtCap ==
  [][\A f \in Frames :
       (pc[f] = "queue" /\ pc'[f] # "queue" /\
          Cardinality(DownloadedOn(today)) >= MAX_DOWNLOADS_PER_DAY)
         => /\ pc'[f] = "notify"
            /\ UNCHANGED <<books, user_books, queueVars, outcome, tmp, files, copiedToday>>]_vars

\* processQueue has returned without an attempt, at the cap, with a book pending
C9_Witness ==
  \E f \in Frames :
    /\ pc[f] = "notify"
    /\ attempted[f] = {}
    /\ Cardinality(DownloadedOn(today)) >= MAX_DOWNLOADS_PER_DAY
    /\ pendingRows(books, {}) # {}

\* C10 (as claimed): when a book assigned to a user at the per-user cap and
\* to a user under it is downloaded, the file is copied only to the user
\* under the cap, and only that user's count of today's downloads increases.
C10_OnlyServedUserCounts ==
  [][\A f \in Frames :
       (pc[f] = "download" /\ books[job[f].id].status = "pending"
          /\ books'[job[f].id].status = "downloaded")
         => \A u \in getUsersForBook(user_books, job[f].id) :
              IF UserLimitReached(countUserDownloadsToday(books, user_books, today, u))
                THEN /\ <<u, job[f].id>> \notin copiedToday'
                     /\ countUserDownloadsToday(books', user_books', today', u)
                          = countUserDownloadsToday(books, user_books, today, u)
                ELSE /\ <<u, job[f].id>> \in copiedToday'
                     /\ countUserDownloadsToday(books', user_books', today', u)
                          = countUserDownloadsToday(books, user_books, today, u) + 1]_vars

\* an iteration of frame f ends in this step with the given outcome
IterationEnds(f, how) == pc[f] \in {"search", "download"} /\ pc'[f] = "cooldown" /\ outcome' = how

\* C11 (as claimed): when the download has succeeded and the copy to one
\* eligible user fails, the book is still marked downloaded and every other
\* eligible user has the file, so that the book is not downloaded again.
C11_CopyFailureIsolated ==
  [][\A f \in Frames :
       IterationEnds(f, "copy_error")
         => /\ books'[job[f].id].status = "downloaded"
            /\ Cardinality({u \in eligibleUsers[f] : <<u, job[f].id>> \notin files'}) <= 1]_vars

C13_IntegrityGate ==
  [][\A f \in Frames, path \in DownloadPaths, size \in Sizes :
       IF size < 1024
         THEN /\ ~CopyFailed(f, path, size)
              /\ ~DownloadSucceeded(f, path, size)
              /\ DownloadTooSmall(f, path, size)
                   => /\ IterationEnds(f, "too_small")
                      /\ tmp' \subseteq tmp
                      /\ files' = files
                      /\ books'[job[f].id].status \in {"pending", "failed"}
                      /\ books'[job[f].id].attempts = job[f].attempts + 1
         ELSE ~DownloadTooSmall(f, path, size)]_vars

\* a payload has just been rejected by the gate and the book waits for a retry
C13_Witness ==
  \E f \in Frames, k \in Keys :
    /\ k \in attempted[f]
    /\ pc[f] = "cooldown" /\ outcome = "too_small"
    /\ books[k].status = "pending"
    /\ k \notin tmp

\* C14 (as claimed): when the processing of an item ends, by success or by a
\* failure at any step, no temp file of that item is in the temp directory.
C14_NoTempFileLeft ==
  [][\A f \in Frames :
       (pc[f] \in {"search", "download"} /\ pc'[f] = "cooldown") => job[f].id \notin tmp']_vars

C16_UpsertKeepsNonNull ==
  /\ [](\A r1, r2 \in bookRows : r1.goodreads_book_id = r2.goodreads_book_id => r1 = r2)
  /\ [][\A key \in Keys, isbn \in Nullable, title \in Nullable, author \in Nullable :
          (arg' = <<key, isbn, title, author>> /\ UpsertBook(key, isbn, title, author))
            => /\ Cardinality({r \in bookRows' : r.goodreads_book_id = key}) = 1
               /\ \A r \in bookRows' :
                    r.goodreads_book_id = key =>
                      IF HasRow(bookRows, key)
                        THEN \E old \in bookRows :
                               /\ old.goodreads_book_id = key /\ old.id = r.id
                               /\ r.isbn = (IF isbn = {} THEN old.isbn ELSE isbn)
                               /\ r.title = (IF title = {} THEN old.title ELSE title)
                               /\ r.author = (IF author = {} THEN old.author ELSE author)
                               /\ Cardinality(bookRows') = Cardinality(bookRows)
                        ELSE /\ r.isbn = isbn /\ r.title = title /\ r.author = author
                             /\ Cardinality(bookRows') = Cardinality(bookRows) + 1]_vars

\* (title = "X", author = null), then (title = null, author = "Y"): one row
\* with title "X" and author "Y"
C16_Witness ==
  \E r \in bookRows :
    /\ arg = <<r.goodreads_book_id, {}, {}, {"Y"}>>
    /\ r.title = {"X"} /\ r.author = {"Y"} /\ r.isbn = {}
    /\ Cardinality({o \in bookRows : o.goodreads_book_id = r.goodreads_book_id}) = 1

\* C17: the ingestion of an item whose book has a row changes neither status,
\* attempts, file name nor downloaded_at of the row (it sets updated_at); when
\* the book was downloaded on an earlier day, today's global count and every
\* user's count for today are the same before and after.
C17_UpsertLeavesCounts ==
  [][\A u \in Users, key \in Keys :
       (IngestItem(u, key) /\ HasRow(bookRows, key))
         => /\ asTable(bookRows')[key].status = asTable(bookRows)[key].status
            /\ asTable(bookRows')[key].attempts = asTable(bookRows)[key].attempts
            /\ asTable(bookRows')[key].file_path = asTable(bookRows)[key].file_path
            /\ asTable(bookRows')[key].downloaded_at = asTable(bookRows)[key].downloaded_at
            /\ asTable(bookRows')[key].updated_at = {today}
            /\ (/\ asTable(bookRows)[key].status = "downloaded"
                /\ asTable(bookRows)[key].downloaded_at # {today})
                 => /\ countDownloadsToday(asTable(bookRows'), today')
                         = countDownloadsToday(asTable(bookRows), today)
                    /\ \A v \in Users :
                         countUserDownloadsToday(asTable(bookRows'), user_books', today', v)
                           = countUserDownloadsToday(asTable(bookRows), user_books, today, v)]_vars

\* a book downloaded yesterday has been ingested again today, while another
\* book was downloaded today
C17_Witness ==
  \E r, o \in bookRows :
    /\ r.status = "downloaded" /\ r.downloaded_at = {today - 1} /\ r.updated_at = {today}
    /\ o.status = "downloaded" /\ o.downloaded_at = {today}

\* C18: a running cycle eventually ends with the flag cleared, also after an
\* exception; the flag is set only while a cycle is active, so that the
\* trigger after the end of a cycle starts a new cycle.
C18_CycleEnds ==
  /\ cycleRunning ~> (~cycleRunning /\ ActiveFrames = {})
  /\ [](ActiveFrames = {} => ~cycleRunning)
  /\ [][\A trigger \in Triggers :
          (~cycleRunning /\ RunCycle(trigger))
            => (cycleRunning' /\ \E f \in Frames : pc'[f] = "sync")]_vars

\* a cycle has ended by an exception and a trigger has started the next one
C18_Witness ==
  /\ outcome = "thrown"
  /\ cycleRunning
  /\ \E f \in Frames : pc[f] = "sync"

\* C19: after reset-limits has run no downloaded book has downloaded_at on
\* the current day, so today's global count and every user's count are 0; the
\* command changes no status, attempts or file name; and a cycle whose queue
\* processing starts with no download of today finds no user rate-limited.
C19_ResetLimitsClears ==
  /\ [][ResetLimits
          => /\ \A k \in Keys :
                  /\ ~(books'[k].status = "downloaded" /\ books'[k].downloaded_at = {today'})
                  /\ books'[k].status = books[k].status
                  /\ books'[k].attempts = books[k].attempts
                  /\ books'[k].file_path = books[k].file_path
             /\ countDownloadsToday(books', today') = 0
             /\ \A u \in Users : countUserDownloadsToday(books', user_books', today', u) = 0]_vars
  /\ [][\A f \in Frames :
          (pc[f] = "queue" /\ pc'[f] # "queue" /\ DownloadedOn(today) = {})
            => (pc'[f] = "loop" /\ rateLimitedUserIds'[f] = {})]_vars

\* the daily cap was used up on the first day, the limits were reset, and the
\* queue processing of a later cycle has started with nobody rate-limited
C19_Witness ==
  \E f \in Frames :
    /\ today = 0
    /\ Cardinality({k \in Keys : books[k].status = "downloaded"
                                   /\ books[k].downloaded_at = {today - 1}})
         >= MAX_DOWNLOADS_PER_DAY
    /\ pc[f] = "loop" /\ attempted[f] = {} /\ rateLimitedUserIds[f] = {}
    /\ pendingRows(books, {}) # {}

\* C20: the title score is 0 when a word set is empty and otherwise the size
\* of the intersection of the two word sets divided by the size of the
\* smaller one; it lies in [0, 1]; it is the same with the arguments swapped.
C20_TitleScore ==
  \A score \in ret :
    LET wordsA == wordSet(arg[1])
        wordsB == wordSet(arg[2])
        least == IF Cardinality(wordsA) <= Cardinality(wordsB)
                   THEN Cardinality(wordsA) ELSE Cardinality(wordsB)
        swapped == wordOverlap(arg[2], arg[1])
    IN /\ score[2] > 0 /\ 0 <= score[1] /\ score[1] <= score[2]
       /\ (wordsA = {} \/ wordsB = {}) => score[1] = 0
       /\ (wordsA # {} /\ wordsB # {})
            => score[1] * least = Cardinality(wordsA \cap wordsB) * score[2]
       /\ score[1] * swapped[2] = swapped[1] * score[2]

\* a score of one half: one of the two words of the smaller set is in the other
C20_Witness ==
  /\ ret = {<<1, 2>>}
  /\ wordSet(arg[1]) \cap wordSet(arg[2]) # {}

\* C21: isGoodMatch returns true exactly when the title score is at least
\* 7/10 and either no expected author is given or a token longer than 2
\* characters of the normalized expected author occurs in the normalized
\* listed author; an expected author without such a token is always rejected.
C21_GoodMatch ==
  \A accepted \in ret :
    LET score == wordOverlap(arg[1], arg[3])
        tokens == wordSet(arg[2])
        listed == normalizeText(arg[4])
        hit == \E t \in tokens :
                 /\ Len(t) > 2
                 /\ \E i \in 1..Len(listed), j \in 1..Len(listed) : SubSeq(listed, i, j) = t
    IN /\ accepted <=> (7 * score[2] <= 10 * score[1] /\ (arg[2] = <<>> \/ hit))
       /\ (arg[2] # <<>> /\ \A t \in tokens : Len(t) <= 2) => ~accepted

\* a title score of exactly 7/10 with an author token found inside a longer
\* listed author: accepted
C21_Witness ==
  /\ ret = {TRUE}
  /\ wordOverlap(arg[1], arg[3]) = <<7, 10>>
  /\ arg[2] # <<>>
  /\ Len(normalizeText(arg[4])) > Len(normalizeText(arg[2]))

\* C22: the increment of attempts is stored in the step that starts the
\* attempt, before the search is awaited: while the search or the download of
\* an attempt is under way the stored attempts already counts it, and a
\* process death at that point leaves it so.
C22_AttemptCountedFirst ==
  /\ [](\A f \in Frames :
          pc[f] \in {"search", "download"}
            => books[job[f].id].attempts = job[f].attempts + 1)
  /\ [][\A f \in Frames :
          AttemptStarts(f)
            => /\ job'[f].attempts = books[job'[f].id].attempts
               /\ books'[job'[f].id].attempts = books[job'[f].id].attempts + 1]_vars
  /\ [][ProcessDies
          => \A f \in Frames :
               pc[f] \in {"search", "download"}
                 => /\ books'[job[f].id].attempts = job[f].attempts + 1
                    /\ books'[job[f].id].status = "pending"]_vars

\* the process died during the last attempt of a book: the attempt is counted
\* and nothing has recorded a failure
C22_Witness ==
  /\ ~cycleRunning
  /\ \E k \in Keys : books[k].status = "pending" /\ books[k].attempts = MAX_ATTEMPTS

\* pending books outside the exclusion set of frame f
PendingOutside(f) == {k \in Keys : books[k].status = "pending" /\ k \notin skippedBookIds[f]}

\* the book the loop head of frame f selects in this step: attempted or skipped
Selects(f, k) ==
  /\ pc[f] = "loop"
  /\ \/ pc'[f] = "search" /\ job'[f].id = k
     \/ pc'[f] = "loop" /\ skippedBookIds'[f] = skippedBookIds[f] \cup {k} /\ k \notin skippedBookIds[f]

\* the loop head of frame f, under the global cap, gets no book and breaks
SelectsNone(f) ==
  /\ pc[f] = "loop" /\ pc'[f] = "notify"
  /\ ~DailyLimitReached(countDownloadsToday(books, today))

\* C23 (as claimed): the selection returns a pending book outside the
\* exclusion set whose attempts is minimal among the pending books outside
\* it, and returns none only if there is no pending book outside it.
C23_SelectNext ==
  [][\A f \in Frames :
       /\ \A k \in Keys :
            Selects(f, k)
              => /\ k \in PendingOutside(f)
                 /\ \A o \in PendingOutside(f) : books[k].attempts <= books[o].attempts
       /\ SelectsNone(f) => PendingOutside(f) = {}]_vars

\* frame f skips book k in this step
Skips(f, k) ==
  /\ pc[f] = "loop"
  /\ k \notin skippedBookIds[f]
  /\ skippedBookIds'[f] = skippedBookIds[f] \cup {k}

\* C24: a book is skipped exactly when it is selected with every assigned
\* user in the rate-limited set; the skip changes no row, starts no attempt
\* and no cooldown and leaves the frame at the loop head; and the loop, under
\* the global cap, does not end while a pending book with attempts left has
\* an assigned user outside the rate-limited set.
C24_SkipDoesNotStarve ==
  [][\A f \in Frames :
       /\ \A k \in BookIds :
            Skips(f, k)
              => /\ books[k].status = "pending"
                 /\ getUsersForBook(user_books, k) \subseteq rateLimitedUserIds[f]
                 /\ books' = books
                 /\ pc'[f] = "loop"
                 /\ attempted'[f] = attempted[f]
                 /\ UNCHANGED <<outcome, tmp, files, copiedToday, rateLimitedUserIds>>
       /\ AttemptStarts(f)
            => ~(getUsersForBook(user_books, job'[f].id) \subseteq rateLimitedUserIds[f])
       /\ (pc[f] = "loop" /\ pc'[f] = "notify"
             /\ Cardinality({k \in BookIds : books[k].status = "downloaded"
                                              /\ books[k].downloaded_at = {today}})
                  < MAX_DOWNLOADS_PER_DAY)
            => \A k \in BookIds :
                 (books[k].status = "pending" /\ books[k].attempts < MAX_ATTEMPTS)
                   => getUsersForBook(user_books, k) \subseteq rateLimitedUserIds[f]]_vars

\* a book of the user at the cap was skipped without an attempt, and the
\* other user's book behind it is being attempted in the same cycle
C24_Witness ==
  \E f \in Frames, k \in BookIds :
    /\ k \in skippedBookIds[f]
    /\ books[k].status = "pending" /\ books[k].attempts = 0
    /\ pc[f] = "search"
    /\ job[f].id \notin skippedBookIds[f]
    /\ getUsersForBook(user_books, job[f].id) \cap getUsersForBook(user_books, k) = {}

\* users whose count of today's downloads is at or above the per-user cap
AtUserCap ==
  {u \in Users :
     Cardinality({k \in BookIds : /\ books[k].status = "downloaded"
                                  /\ books[k].downloaded_at = {today}
                                  /\ <<u, k>> \in user_books})
       >= MAX_DOWNLOADS_PER_USER_PER_DAY}

\* positions of a frame inside the loop of processQueue
InLoop == {"loop", "search", "download", "cooldown"}

\* C25: where the loop selects a book (at its head), every user whose count of
\* today's downloads has reached the per-user cap is in the rate-limited set;
\* the set never loses a user during the loop; in the step of a success the
\* users served enter the set exactly if their count has then reached the cap,
\* and no other step of the loop changes the set.
C25_RateLimitedSetCurrent ==
  /\ [](\A f \in Frames : pc[f] = "loop" => AtUserCap \subseteq rateLimitedUserIds[f])
  /\ [][\A f \in Frames :
          (pc[f] \in InLoop /\ pc'[f] \in InLoop)
            => /\ rateLimitedUserIds[f] \subseteq rateLimitedUserIds'[f]
               /\ IF IterationEnds(f, "downloaded")
                    THEN rateLimitedUserIds'[f]
                           = rateLimitedUserIds[f] \cup (eligibleUsers[f] \cap AtUserCap')
                    ELSE rateLimitedUserIds'[f] = rateLimitedUserIds[f]]_vars

\* a user reached the cap by a download of this cycle, is in the set at the
\* next selection, and a pending book is left
C25_Witness ==
  \E f \in Frames, u \in Users, k \in BookIds :
    /\ pc[f] = "loop"
    /\ k \in attempted[f] /\ books[k].status = "downloaded" /\ <<u, k>> \in copiedToday
    /\ u \in AtUserCap /\ u \in rateLimitedUserIds[f]
    /\ pendingRows(books, {}) # {}

\* C26: the loop of a cycle ends; and when it ends by its own break, either
\* today's count has reached the global cap or no pending book with attempts
\* below MAX_ATTEMPTS is outside the exclusion set.  (An exception that
\* leaves processQueue ends the loop as well; it ends the cycle.)
C26_LoopTerminates ==
  /\ \A f \in Frames : (pc[f] \in InLoop) ~> (pc[f] \notin InLoop)
  /\ [][\A f \in Frames :
          (pc[f] \in InLoop /\ pc'[f] \notin InLoop)
            => \/ pc'[f] = "idle" /\ outcome' = "thrown"
               \/ /\ pc[f] = "loop" /\ pc'[f] = "notify"
                  /\ \/ Cardinality({k \in BookIds : books[k].status = "downloaded"
                                                     /\ books[k].downloaded_at = {today}})
                          >= MAX_DOWNLOADS_PER_DAY
                     \/ {k \in BookIds : /\ books[k].status = "pending"
                                         /\ books[k].attempts < MAX_ATTEMPTS
                                         /\ k \notin skippedBookIds[f]} = {}]_vars

\* the loop has ended under the global cap after an attempt, with the only
\* pending book in the exclusion set
C26_Witness ==
  \E f \in Frames :
    /\ pc[f] = "notify"
    /\ attempted[f] # {}
    /\ skippedBookIds[f] # {}
    /\ \E k \in skippedBookIds[f] : books[k].status = "pending"
    /\ Cardinality({k \in BookIds : books[k].status = "downloaded"
                                     /\ books[k].downloaded_at = {today}})
         < MAX_DOWNLOADS_PER_DAY

\* the ways an attempt fails
Failures == {"not_found", "error", "too_small", "copy_error"}

\* C27: an attempt leaves the search only for the download or the end of the
\* iteration and the download only for the end of the iteration; when it
\* fails, whatever the failure, the book keeps the attempts counted at the
\* start of the attempt and is pending or failed, no other book changes, the
\* cycle goes on, and after the cooldown the frame is at the loop head again.
C27_FailureCaught ==
  [][\A f \in Frames :
       /\ (pc[f] \in {"search", "download"} /\ pc'[f] # pc[f])
            => /\ pc'[f] \in {"download", "cooldown"}
               /\ pc'[f] = "cooldown" => outcome' \in Failures \cup {"downloaded"}
       /\ \A how \in Failures :
            IterationEnds(f, how)
              => /\ books'[job[f].id].attempts = job[f].attempts + 1
                 /\ books'[job[f].id].attempts = books[job[f].id].attempts
                 /\ books'[job[f].id].status \in {"pending", "failed"}
                 /\ books'[job[f].id].status = "pending" => books[job[f].id].status = "pending"
                 /\ \A o \in BookIds \ {job[f].id} : books'[o] = books[o]
                 /\ cycleRunning'
                 /\ UNCHANGED <<user_books, skippedBookIds, rateLimitedUserIds>>
       /\ (pc[f] = "cooldown" /\ pc'[f] # "cooldown") => pc'[f] = "loop"]_vars

\* after the failed attempt of one book, the same cycle is attempting the other
C27_Witness ==
  \E f \in Frames, k \in Keys :
    /\ pc[f] = "search"
    /\ k \in attempted[f] /\ k # job[f].id
    /\ books[k].status = "pending" /\ books[k].attempts = 1
    /\ job[f].attempts = 0

\* C28: every attempt, succeeded or failed, ends in the cooldown sleep, and
\* the frame is back at the loop head (the cap test and the selection) only
\* when the sleep has returned; an attempt starts only with the sleep of the
\* previous item over; a skip leaves the frame at the loop head without sleep.
C28_CooldownBetweenItems ==
  /\ [][\A f \in Frames :
          /\ (pc[f] \in {"search", "download"} /\ pc'[f] \notin {"search", "download"})
               => pc'[f] = "cooldown" /\ outcome' # "none"
          /\ (pc[f] # "cooldown" /\ pc'[f] = "cooldown") => pc[f] \in {"search", "download"}
          /\ (pc[f] # "loop" /\ pc'[f] = "loop")
               => \/ pc[f] = "queue"
                  \/ pc[f] = "cooldown" /\ outcome # "none" /\ outcome' = "none"
          /\ AttemptStarts(f) => outcome = "none"
          /\ \A k \in BookIds :
               Skips(f, k) => pc'[f] = "loop" /\ outcome' = outcome]_vars
  /\ []((\E f \in Frames : pc[f] = "cooldown") <=> outcome \in Failures \cup {"downloaded"})

\* a book was downloaded, the sleep is over, and the loop head has a pending
\* book to select
C28_Witness ==
  \E f \in Frames, k \in Keys :
    /\ pc[f] = "loop" /\ outcome = "none"
    /\ k \in attempted[f] /\ books[k].status = "downloaded"
    /\ pendingRows(books, skippedBookIds[f]) # {}
    /\ Cardinality(DownloadedOn(today)) < MAX_DOWNLOADS_PER_DAY

\* the position of the first result among the first five of a page that has
\* a parsable identifier and is accepted by isGoodMatch; 0 if there is none
FirstAccepted(response) ==
  LET accepted == {r \in 1..Len(response.results) :
                     /\ r <= 5
                     /\ response.results[r].href = "md5"
                     /\ goodMatch[response.results[r].title]}
  IN IF response.kind # "page" \/ accepted = {} THEN 0
     ELSE CHOOSE r \in accepted : \A o \in accepted : r <= o

\* C29: the mirrors are queried in the configured order, one at a time; when
\* the page of a mirror has an accepted result among its first five results
\* with a parsable identifier, the search returns the first of them with that
\* mirror's domain, and no mirror is queried after it; a result past the
\* fifth or without a parsable identifier is never returned.
C29_FirstAcceptedInOrder ==
  /\ [][arg' # arg
          => /\ ret = {}
             /\ arg'[1] = arg[1] + 1 /\ arg'[1] <= Len(AA_DOMAINS)
             /\ FirstAccepted(arg'[2]) # 0
                  => ret' = {Reference(AA_DOMAINS[arg'[1]], FirstAccepted(arg'[2]))}
             /\ FirstAccepted(arg'[2]) = 0 => \A v \in ret' : v.kind # "url"]_vars
  /\ [](\A v \in ret :
          v.kind = "url"
            => /\ v.domain = AA_DOMAINS[arg[1]]
               /\ v.md5 \in 1..5
               /\ arg[2].results[v.md5].href = "md5"
               /\ \A r \in 1..(v.md5 - 1) :
                    \/ arg[2].results[r].href # "md5"
                    \/ ~goodMatch[arg[2].results[r].title])

\* the first mirror had nothing, and the second mirror's page has an
\* unparsable result, a rejected one and then the accepted one, which is returned
C29_Witness ==
  /\ arg[1] = 2
  /\ Len(arg[2].results) = 6
  /\ arg[2].results[1].href = "unparsable"
  /\ arg[2].results[2] = [href |-> "md5", title |-> <<"b">>]
  /\ arg[2].results[3] = [href |-> "md5", title |-> <<"a">>]
  /\ ret = {Reference(AA_DOMAINS[2], 3)}

C31_PathFollowsCredential ==
  LET configured == arg[1] \in {{"key1"}, {"key2"}}
  IN \A v \in ret :
       /\ configured => /\ Len(v.url) = 14 /\ v.url[6] = "fast_download"
                        /\ v.url[4] = AA_DOMAINS[arg[2]] /\ v.url[8] = arg[3] /\ {v.url[14]} = arg[1]
       /\ ~configured => v.url = <<"https:", "/", "/", AA_DOMAINS[arg[2]], "/", "md5", "/", arg[3]>>
       /\ v.path # "none" =>
            /\ v.path = "browser" <=> v.url[6] = "fast_download"
            /\ v.path = "browser" => configured
            /\ ~configured => v.path = "stream"

\* without a credential (the variable set to the empty string) a download has streamed
C31_Witness ==
  /\ arg[1] = {""}
  /\ \E v \in ret : v.path = "stream" /\ v.url[6] = "md5"

\* with a credential a download has gone through the browser
C31_WitnessBrowser ==
  /\ arg[1] = {"key1"}
  /\ \E v \in ret : v.path = "browser"

\* C32: the browser launched by downloadWithBrowser is closed before the call
\* returns or raises, on every way out; so there is never more than one
\* browser instance, and no call starts with a browser still open.
C32_BrowserScoped ==
  /\ [](arg.browsers <= 1)
  /\ [](arg.pc \in {"idle", "settled"} => arg.browsers = 0)
  /\ [](ret # {} => arg.pc = "settled")
  /\ [][arg'.pc = "launch" => arg.browsers = 0]_vars

\* a call has raised the overall timeout, its browser closed
C32_Witness ==
  /\ arg.pc = "settled"
  /\ ret = {"timeout"}
  /\ arg.browsers = 0

\* C33: the file accepted as the completed download was not in the snapshot
\* taken before navigation, has no .crdownload suffix, and had the same
\* non-zero size at the check before and the check after a wait of 2 seconds;
\* a candidate whose two sizes differ is not accepted at that poll.
C33_StableNewFileOnly ==
  /\ [][arg'.pc = "recheck"
          => /\ arg'.candidate \in readdirSync(arg'.dir)
             /\ arg'.size1 = statSync(arg'.dir, arg'.candidate)]_vars
  /\ [][(arg.pc = "recheck" /\ arg'.pending = "accepted")
          => /\ arg.candidate \notin arg.filesBefore
             /\ arg.candidate[Len(arg.candidate)] # ".crdownload"
             /\ arg'.elapsed = arg.elapsed + 2
             /\ \E size \in FileSizes \ {0} :
                  /\ arg.size1 = size
                  /\ <<arg.candidate, size>> \in arg'.dir]_vars
  /\ [][(/\ arg.pc = "recheck"
         /\ \E e \in arg'.dir : e[1] = arg.candidate /\ e[2] # arg.size1)
          => arg'.pending # "accepted"]_vars
  /\ [](arg.pending = "accepted" \/ ret = {"accepted"}
          => /\ arg.candidate = BookFile
             /\ <<BookFile, arg.size1>> \in arg.dir)

\* a file is accepted while a file of the snapshot lies in the directory
C33_Witness ==
  /\ ret = {"accepted"}
  /\ arg.candidate = BookFile
  /\ OldFile \in arg.filesBefore
  /\ <<BookFile, 2048>> \in arg.dir

\* the new files the pass that ends in this step has seen: the directory as
\* read after sleep(3000)
SeenInPass == IF arg.pc = "recheck" THEN newFiles(arg.dir, arg.filesBefore)
              ELSE newFiles(arg'.dir, arg.filesBefore)

\* C34: the call fails with the no-progress diagnostics only when more than
\* 90 seconds have passed since navigation and the pass has seen neither a
\* file in progress nor a completed new file; a pass that has seen one goes
\* on polling unless the file is accepted, falls to an error of statSync, or
\* the overall timeout of 300 seconds has expired, and then the call fails
\* with a timeout.
C34_NoProgressOnlyWithoutFiles ==
  /\ [][(arg.pc \in {"poll", "recheck"} /\ arg'.pending = "no_progress")
          => /\ arg'.elapsed > 90
             /\ SeenInPass = {}]_vars
  /\ [][(arg.pc \in {"poll", "recheck"} /\ SeenInPass # {})
          => \/ arg'.pc = "recheck"
             \/ arg'.pc = "poll" /\ arg'.elapsed < 300
             \/ arg'.pending \in {"accepted", "error"}
             \/ arg'.pending = "timeout" /\ arg'.elapsed >= 300]_vars
  /\ [][arg'.pending = "timeout" /\ arg.pending # "timeout" => arg'.elapsed >= 300]_vars

\* the feed awaited in frame f has failed in this step: the user is not
\* linked to a book that every delivery of the feed holds
FeedFails(f) ==
  /\ pc[f] = "sync"
  /\ \A shelf \in feeds[syncUser[f]] : \E k \in shelf : <<syncUser[f], k>> \notin user_books'

\* C35: a failure of one user's feed is caught for that user: the feed of the
\* next user is awaited next, after the last user the queue is processed,
\* and the cycle goes on running.
C35_FeedFailureIsolated ==
  [][\A f \in Frames :
       FeedFails(f)
         => /\ cycleRunning'
            /\ IF syncUser[f] = LastUser
                 THEN pc'[f] = "queue"
                 ELSE pc'[f] = "sync" /\ syncUser'[f] = syncUser[f] + 1]_vars

\* the first user's feed failed, the second user's was ingested and the
\* queue has started an attempt for a book of the second user
C35_Witness ==
  /\ \A k \in BookIds : <<1, k>> \notin user_books
  /\ \E k \in BookIds : <<LastUser, k>> \in user_books /\ LastUser # 1
  /\ \E f \in Frames : pc[f] = "search" /\ attempted[f] # {}

\* the books downloaded on the current calendar day of the process's time zone
DownloadedLocalToday ==
  {k \in BookIds : /\ books[k].status = "downloaded"
                   /\ \E t \in books[k].downloaded_at :
                        localDate(t, arg[1]) = localDate(arg[2], arg[1])}

\* C36: the counts are those of the current calendar day in the process's
\* time zone, whatever its offset: a book downloaded on the previous local
\* day is not counted and one downloaded earlier on the same local day is.
C36_LocalCalendarDay ==
  \A r \in ret :
    /\ r.global = Cardinality(DownloadedLocalToday)
    /\ \A u \in Users :
         r.user[u] = Cardinality({k \in DownloadedLocalToday : <<u, k>> \in user_books})

\* C37: whenever no attempt is in progress, a book whose attempts have
\* reached MAX_ATTEMPTS is downloaded or failed: none is left pending with
\* its attempts used up.
C37_ExhaustedIsTerminal ==
  (\A f \in Frames : pc[f] \notin {"search", "download"})
    => \A k \in BookIds :
         books[k].attempts >= MAX_ATTEMPTS => books[k].status \in {"downloaded", "failed"}

\* the step marks book k downloaded in frame f while user u, linked to k, is
\* in the rate-limited set and so not among the eligible users
DownloadedWithout(f, k, u) ==
  /\ pc[f] = "download"
  /\ job[f].id = k
  /\ books[k].status = "pending"
  /\ books'[k].status = "downloaded"
  /\ <<u, k>> \in user_books
  /\ u \in rateLimitedUserIds[f]

\* C38: a user linked to a book but rate-limited when the book is downloaded
\* gets no copy in that step, the book counts in the user's count of the day,
\* and no later step copies a downloaded book to anyone.
C38_LimitedUserNeverServed ==
  /\ [][\A f \in Frames, k \in BookIds, u \in Users :
          DownloadedWithout(f, k, u)
            => /\ <<u, k>> \in files' => <<u, k>> \in files
               /\ <<u, k>> \notin copiedToday' \ copiedToday
               /\ countUserDownloadsToday(books', user_books', today', u)
                    = countUserDownloadsToday(books, user_books, today, u) + 1]_vars
  /\ [][\A k \in BookIds, u \in Users :
          (books[k].status = "downloaded" /\ <<u, k>> \in files')
            => /\ <<u, k>> \in files
               /\ books'[k].status = "downloaded"]_vars

\* the only book attempted in this queue run has just been downloaded for
\* the other user while this one, linked to it, was rate-limited and got no file
C38_Witness ==
  \E f \in Frames, k \in BookIds, u \in Users :
    /\ pc[f] = "cooldown"
    /\ outcome = "downloaded"
    /\ attempted[f] = {k}
    /\ books[k].status = "downloaded"
    /\ <<u, k>> \in user_books
    /\ u \in rateLimitedUserIds[f]
    /\ <<u, k>> \notin files
    /\ \E v \in Users \ {u} : <<v, k>> \in files

====
